---- MODULE Spec2Model ----
(***************************************************************************)
(* KiCodex: persistent project registry, runtime registry, auth            *)
(* middleware, content watcher, auto-registration and the tray's use of    *)
(* the discovery engine.                                                   *)
(*                                                                         *)
(* Conventions                                                             *)
(*   Option<T>     : None is <<>>, Some(x) is <<x>>.                       *)
(*   paths         : sequences of path components, <<"p1", "x">>.          *)
(*   tokens        : sequences of one-character strings.                   *)
(*   Arc<Library>  : an address into heap; heap[a] is the library value.   *)
(***************************************************************************)
EXTENDS Integers, Sequences, FiniteSets, TLC

VARIABLES
    persisted,      \* PersistedRegistry.projects: sequence of ProjectEntry
    lastOp,         \* the last persistent-registry operation applied (observation)
    disk,           \* library directories on disk: path -> [status, gen, description]
    heap,           \* Arc<LoadedLibrary> objects: heap[a] is the library at address a
    libraries,      \* ProjectRegistry.libraries: token -> address
    handle,         \* per reader: Option<Arc<LoadedLibrary>> returned by its last get
    got,            \* per reader: what its last get observed (observation)
    rl,             \* the reload call in progress and the last finished one
    entries,        \* content watcher: watch_entries (watch_path, token, library_path)
    watcher,        \* content watcher thread: "none" (not spawned) or "running"
    channel,        \* content watcher: debounced messages sent and not yet handled
    lastEv,         \* content watcher: the last event handled and the reloads it called
    existed,        \* the library paths that existed when start_watching ran (observation)
    req,            \* the HTTP request inside auth_middleware
    manifest,       \* kicodex.yaml per project directory: [status, libraries]
    files,          \* descriptor files: <<dir, name>> -> content, for the files that exist
    saved,          \* the registry file projects.json: None or Some(projects)
    nextToken,      \* the number of tokens uuid::Uuid::new_v4 has produced
    configDir,      \* dirs::config_dir() is Some
    lastCall,       \* the last try_auto_register call (observation)
    prevCall,       \* the call before it (observation)
    appPersisted,   \* tray: AppState.persisted, the registry behind the mutex
    enginePc,       \* tray: the discovery engine is "idle" or about to run its "callback"
    removed,        \* tray: tokens remove_project has removed (observation)
    discovered,     \* tray: entries a discovery save has written (observation)
    active_dirs,    \* discovery engine: the project directories open in KiCad
    watched_dirs,   \* lock watcher: the directories the debouncer watches
    lockFiles,      \* lock watcher: the files in the project directories
    debounce,       \* lock watcher: the paths with a change the debouncer has not reported
    lockRx,         \* lock watcher: messages from the debouncer to the thread
    event_tx,       \* lock watcher: the LockEvents sent so far
    fsCount,        \* lock watcher: what happened to the .lck files of each directory (observation)
    csvFile,        \* CSV: the text of the file, None when there is no file
    csvRows,        \* CSV: the rows the caller holds, returned by the last successful load
    csvLast,        \* CSV: the last operation on the file (observation)
    schemas,        \* schemas: the files of the schemas directory, by schema name
    schemaLast,     \* schemas: the last load_schema call and its outcome (observation)
    part_tables,    \* parts routes: the tables of the authenticated library
    partsLast,      \* parts routes: the last request and its response (observation)
    kicad,          \* KicadLibraries: symbol_libs and footprint_libs, name -> LibContent
    libFs,          \* KiCad libraries: the file or directory at each library path
    lookLog,        \* KiCad libraries: the calls made so far and their results (observation)
    loaderCalls,    \* KiCad libraries: the <<kind, name>> of each loader call (observation)
    libYaml,        \* watched library: its library.yaml and schemas can be read ("ok") or not
    needsIds,       \* watched library: per table, the CSV file has a row that lacks a valid id
    fsPending,      \* watched library: paths changed that the debouncer has not reported
    fsBatches,      \* watched library: debounced batches sent and not yet handled
    wbLog           \* watched library: reloads and rewrites since the last edit (observation)

persistVars == <<persisted, lastOp>>

runtimeVars == <<heap, libraries>>

readerVars == <<handle, got, rl>>

watcherVars == <<entries, watcher, channel, lastEv, existed>>

authVars == <<req>>

autoVars == <<manifest, files, saved, nextToken, configDir, lastCall, prevCall>>

trayVars == <<appPersisted, enginePc, removed, discovered, active_dirs>>

lockVars == <<watched_dirs, lockFiles, debounce, lockRx, event_tx, fsCount>>

csvVars == <<csvFile, csvRows, csvLast>>

schemaVars == <<schemas, schemaLast>>

partsVars == <<part_tables, partsLast>>

kicadVars == <<kicad, libFs, lookLog, loaderCalls>>

writebackVars == <<libYaml, needsIds, fsPending, fsBatches, wbLog>>

vars == <<persisted, lastOp, disk, heap, libraries, handle, got, rl,
          entries, watcher, channel, lastEv, existed, req,
          manifest, files, saved, nextToken, configDir, lastCall, prevCall,
          appPersisted, enginePc, removed, discovered, active_dirs,
          watched_dirs, lockFiles, debounce, lockRx, event_tx, fsCount,
          csvFile, csvRows, csvLast, schemas, schemaLast,
          part_tables, partsLast, kicad, libFs, lookLog, loaderCalls,
          libYaml, needsIds, fsPending, fsBatches, wbLog>>

----------------------------------------------------------------------------
(* Bounds *)

MaxEntries == 3

MaxGen == 1

MaxHeap == 4

MaxChannel == 2

MaxBatch == 2

MaxEdits == 2

MaxTokens == 4

MaxLibs == 2

MaxFsOps == 3

MaxRows == 2

MaxLookups == 2

----------------------------------------------------------------------------
(* Option and sequence helpers *)

None == <<>>

Some(x) == <<x>>

IsNone(o) == o = <<>>

Range(s) == {s[i] : i \in DOMAIN s}

\* Vec::contains
Contains(s, x) == \E i \in DOMAIN s : s[i] = x

----------------------------------------------------------------------------
(* Persistent registry: registry.rs *)

ProjectEntry(token, project_path, library_path, name, description) ==
    [token |-> token, project_path |-> project_path,
     library_path |-> library_path, name |-> name, description |-> description]

\* A plausible slip: dedup by token instead of by path.
UpsertKeepsByToken(entry, p) == p.token # entry.token

\* Vec::retain is SelectSeq. The closure handed to retain by upsert: TRUE when p is kept.
UpsertKeeps(entry, p) ==
    IF IsNone(entry.project_path) /\ IsNone(p.project_path)
    THEN p.library_path # entry.library_path
    ELSE ~(p.project_path = entry.project_path /\ p.library_path = entry.library_path)

Upsert(projects, entry) ==
    LET keep(p) == UpsertKeeps(entry, p)
    IN  Append(SelectSeq(projects, keep), entry)

RemoveByPath(projects, project_path) ==
    LET keep(p) == p.project_path # Some(project_path)
    IN  SelectSeq(projects, keep)

\* A plausible slip: the test on project_path left out.
RemoveByLibraryPathAttachedToo(projects, library_path) ==
    LET keep(p) == p.library_path # library_path
    IN  SelectSeq(projects, keep)

RemoveByLibraryPath(projects, library_path) ==
    LET keep(p) == ~(IsNone(p.project_path) /\ p.library_path = library_path)
    IN  SelectSeq(projects, keep)

\* find_by_token: the first entry with that token, or None.
RECURSIVE FindByToken(_, _)
FindByToken(projects, token) ==
    IF projects = <<>> THEN None
    ELSE IF Head(projects).token = token THEN Some(Head(projects))
         ELSE FindByToken(Tail(projects), token)

----------------------------------------------------------------------------
(* Library loader: server.rs.  A library directory on disk is summarised by *)
(* what load_library does with it: status says which step fails (or none),  *)
(* gen is the generation of the CSV content, one value per component type.  *)

NTables == 2

DiskStatuses == {"ok", "missing", "bad_manifest", "bad_schema", "bad_csv"}

DiskLibrary(status, gen, description) ==
    [status |-> status, gen |-> gen, description |-> description]

LoadedLibrary(name, description, component_types) ==
    [name |-> name, description |-> description, component_types |-> component_types]

\* load_library: the manifest is read first (missing file or bad YAML is a
\* Library error), then per component type the schema (Schema error) and the
\* CSV (Csv error); only a complete list of component types is returned.
LoadLibrary(d, library_root) ==
    LET dir == IF library_root \in DOMAIN d THEN d[library_root]
               ELSE DiskLibrary("missing", 0, None)
    IN  IF dir.status \in {"missing", "bad_manifest"} THEN [ok |-> FALSE, err |-> "Library"]
        ELSE IF dir.status = "bad_schema" THEN [ok |-> FALSE, err |-> "Schema"]
        ELSE IF dir.status = "bad_csv" THEN [ok |-> FALSE, err |-> "Csv"]
        ELSE [ok |-> TRUE,
              lib |-> LoadedLibrary(library_root[Len(library_root)], dir.description,
                                    [i \in 1..NTables |-> dir.gen])]

----------------------------------------------------------------------------
(* Runtime registry: registry.rs *)

Runtime(h, libs) == [heap |-> h, libraries |-> libs]

\* A plausible slip: overwrite the library behind the existing Arc in place
\* instead of installing a new Arc in the slot.
RegistryInsertInPlace(rt, token, library) ==
    IF token \in DOMAIN rt.libraries
    THEN Runtime([rt.heap EXCEPT ![rt.libraries[token]] = library], rt.libraries)
    ELSE Runtime(Append(rt.heap, library),
                 [t \in DOMAIN rt.libraries \cup {token} |->
                    IF t = token THEN Len(rt.heap) + 1 ELSE rt.libraries[t]])

\* insert: Arc::new(library) allocates a new object, the map slot of token is
\* set to it in one DashMap insert.
RegistryInsert(rt, token, library) ==
    Runtime(Append(rt.heap, library),
            [t \in DOMAIN rt.libraries \cup {token} |->
                IF t = token THEN Len(rt.heap) + 1 ELSE rt.libraries[t]])

\* get: a clone of the Arc in the slot, or None.
RegistryGet(libs, token) ==
    IF token \in DOMAIN libs THEN Some(libs[token]) ELSE None

\* remove: drops the slot of token.
RegistryRemove(libs, token) ==
    [t \in DOMAIN libs \ {token} |-> libs[t]]

\* tokens: the keys of the map.
RegistryTokens(libs) == DOMAIN libs

\* A plausible slip: a failed load drops the token's slot.
ReloadDropOnError(rt, d, token, library_path) ==
    LET res == LoadLibrary(d, library_path)
    IN  IF res.ok
        THEN [ok |-> TRUE, rt |-> RegistryInsert(rt, token, res.lib)]
        ELSE [ok |-> FALSE, rt |-> Runtime(rt.heap, RegistryRemove(rt.libraries, token))]

\* reload: load_library(library_path)? returns the error before anything is
\* touched; on success the new Arc is inserted under token.
Reload(rt, d, token, library_path) ==
    LET res == LoadLibrary(d, library_path)
    IN  IF res.ok
        THEN [ok |-> TRUE, rt |-> RegistryInsert(rt, token, res.lib)]
        ELSE [ok |-> FALSE, rt |-> rt]

\* A plausible slip: load_library(..)? in the loop, which ends the loop at the
\* first entry whose library fails.
RECURSIVE FromPersistedLoopStopAtError(_, _, _)
FromPersistedLoopStopAtError(projects, d, rt) ==
    IF projects = <<>> THEN rt
    ELSE LET entry == Head(projects)
             res == LoadLibrary(d, entry.library_path)
         IN  IF res.ok
             THEN FromPersistedLoopStopAtError(Tail(projects), d,
                                               RegistryInsert(rt, entry.token, res.lib))
             ELSE rt

\* from_persisted: every entry whose library loads is inserted under its
\* token, in registry order; an entry whose library fails is skipped.
RECURSIVE FromPersistedLoop(_, _, _)
FromPersistedLoop(projects, d, rt) ==
    IF projects = <<>> THEN rt
    ELSE LET entry == Head(projects)
             res == LoadLibrary(d, entry.library_path)
         IN  FromPersistedLoop(Tail(projects), d,
                               IF res.ok THEN RegistryInsert(rt, entry.token, res.lib) ELSE rt)

FromPersisted(projects, d) == FromPersistedLoop(projects, d, Runtime(<<>>, <<>>))

----------------------------------------------------------------------------
(* Input domains of the persistent-registry specification *)

ProjectDirs == {<<"p1">>, <<"p2">>}

LibraryPaths == {<<"p1", "x">>, <<"p1", "y">>}

RegTokens == {<<"a">>, <<"b">>}

LibNames == {"A", "B"}

\* The directories of the disk model: the library paths and one library
\* nested in another.
NestedPath == <<"p1", "x", "n">>

AllLibraryPaths == LibraryPaths \cup {NestedPath, <<"p2", "x">>}

Readers == {"r1", "r2"}

IdleReload == [pc |-> "idle", last |-> None]

ReadersOff ==
    /\ handle = [r \in Readers |-> None]
    /\ got = [r \in Readers |-> None]
    /\ rl = IdleReload

AuthOff == req = [pc |-> "none"]

WritebackOff ==
    /\ libYaml = "ok"
    /\ needsIds = <<>>
    /\ fsPending = {}
    /\ fsBatches = <<>>
    /\ wbLog = [edits |-> 0, reloads |-> 0, rewrites |-> 0, late |-> FALSE]

KicadOff ==
    /\ kicad = [symbol_libs |-> <<>>, footprint_libs |-> <<>>]
    /\ libFs = <<>>
    /\ lookLog = <<>>
    /\ loaderCalls = <<>>

PartsOff ==
    /\ part_tables = <<>>
    /\ partsLast = [op |-> "none"]

SchemaOff ==
    /\ schemas = <<>>
    /\ schemaLast = [op |-> "none"]

CsvOff ==
    /\ csvFile = None
    /\ csvRows = None
    /\ csvLast = [op |-> "none"]

LockOff ==
    /\ watched_dirs = <<>>
    /\ lockFiles = {}
    /\ debounce = {}
    /\ lockRx = <<>>
    /\ event_tx = <<>>
    /\ fsCount = <<>>

TrayOff ==
    /\ appPersisted = <<>>
    /\ enginePc = "idle"
    /\ removed = {}
    /\ discovered = {}
    /\ active_dirs = <<>>

AutoOff ==
    /\ manifest = [dir \in ProjectDirs |-> [status |-> "missing", libraries |-> <<>>]]
    /\ files = <<>>
    /\ saved = None
    /\ nextToken = 0
    /\ configDir = TRUE
    /\ lastCall = None
    /\ prevCall = None

WatcherOff ==
    /\ entries = <<>>
    /\ watcher = "none"
    /\ channel = <<>>
    /\ lastEv = None
    /\ existed = {}


EntryInputs ==
    {ProjectEntry(t, pp, lp, n, None) :
        t \in RegTokens, pp \in {None} \cup {Some(d) : d \in ProjectDirs},
        lp \in LibraryPaths, n \in LibNames}

----------------------------------------------------------------------------
(* Specification SpecPersist: any sequence of upsert / remove calls on an   *)
(* initially empty PersistedRegistry (PersistedRegistry::default()).        *)

InitPersist ==
    /\ persisted = <<>>
    /\ lastOp = [op |-> "new"]
    /\ disk = [p \in AllLibraryPaths |-> DiskLibrary("ok", 0, None)]
    /\ heap = <<>>
    /\ libraries = <<>>
    /\ ReadersOff
    /\ WritebackOff
    /\ KicadOff
    /\ PartsOff
    /\ SchemaOff
    /\ CsvOff
    /\ LockOff
    /\ WatcherOff
    /\ AuthOff
    /\ AutoOff
    /\ TrayOff

DoUpsert ==
    \E e \in EntryInputs :
        /\ Len(persisted) < MaxEntries
        /\ persisted' = Upsert(persisted, e)
        /\ lastOp' = [op |-> "upsert", entry |-> e, before |-> persisted]
        /\ UNCHANGED <<writebackVars, kicadVars, partsVars, schemaVars, csvVars, lockVars, disk, runtimeVars, readerVars, watcherVars, authVars, autoVars, trayVars>>

DoRemoveByPath ==
    \E d \in ProjectDirs :
        /\ persisted' = RemoveByPath(persisted, d)
        /\ lastOp' = [op |-> "remove_by_path", path |-> d, before |-> persisted]
        /\ UNCHANGED <<writebackVars, kicadVars, partsVars, schemaVars, csvVars, lockVars, disk, runtimeVars, readerVars, watcherVars, authVars, autoVars, trayVars>>

DoRemoveByLibraryPath ==
    \E lp \in LibraryPaths :
        /\ persisted' = RemoveByLibraryPath(persisted, lp)
        /\ lastOp' = [op |-> "remove_by_library_path", path |-> lp, before |-> persisted]
        /\ UNCHANGED <<writebackVars, kicadVars, partsVars, schemaVars, csvVars, lockVars, disk, runtimeVars, readerVars, watcherVars, authVars, autoVars, trayVars>>

NextPersist == DoUpsert \/ DoRemoveByPath \/ DoRemoveByLibraryPath

SpecPersist == InitPersist /\ [][NextPersist]_vars

----------------------------------------------------------------------------
(* Specification SpecBuild: ProjectRegistry::from_persisted at startup, on  *)
(* every registry of up to MaxEntries entries with distinct keys, the i-th  *)
(* entry carrying the i-th token, and every state of the two library        *)
(* directories.                                                             *)

BuildKeys == ({None} \cup {Some(d) : d \in ProjectDirs}) \X LibraryPaths

BuildRegistries ==
    {[i \in DOMAIN ks |-> ProjectEntry(<<"t", i>>, ks[i][1], ks[i][2], "A", None)] :
        ks \in {q \in UNION {[1..n -> BuildKeys] : n \in 0..MaxEntries} :
                    \A i, j \in DOMAIN q : q[i] = q[j] => i = j}}

InitBuild ==
    \E projects \in BuildRegistries, sx, sy \in DiskStatuses :
        /\ persisted = projects
        /\ lastOp = [op |-> "new"]
        /\ disk = [p \in AllLibraryPaths |->
                     DiskLibrary(IF p = <<"p1", "x">> THEN sx
                                 ELSE IF p = <<"p1", "y">> THEN sy ELSE "ok", 0, None)]
        /\ heap = <<>>
        /\ libraries = <<>>
        /\ ReadersOff
        /\ WritebackOff
        /\ KicadOff
        /\ PartsOff
        /\ SchemaOff
        /\ CsvOff
        /\ LockOff
        /\ WatcherOff
        /\ AuthOff
        /\ AutoOff
        /\ TrayOff

\* ProjectRegistry::from_persisted(&persisted)
FromPersistedCall ==
    /\ lastOp.op = "new"
    /\ heap' = FromPersisted(persisted, disk).heap
    /\ libraries' = FromPersisted(persisted, disk).libraries
    /\ lastOp' = [op |-> "from_persisted", ok |-> TRUE]
    /\ UNCHANGED <<writebackVars, kicadVars, partsVars, schemaVars, csvVars, lockVars, persisted, disk, readerVars,
                   watcherVars, authVars, autoVars, trayVars>>

NextBuild == FromPersistedCall

SpecBuild == InitBuild /\ [][NextBuild]_vars

----------------------------------------------------------------------------
(* Specification SpecRegistry: readers calling get and one caller of reload *)
(* on a runtime registry built at startup, while the library directories    *)
(* are edited on disk.  reload is two steps, as in the code: load_library   *)
(* (registry.rs:151), then the insert of the new Arc (registry.rs:152).     *)

TokenA == <<"a">>

TokenB == <<"b">>

InitRegistry ==
    /\ persisted = <<ProjectEntry(TokenA, Some(<<"p1">>), <<"p1", "x">>, "A", None),
                     ProjectEntry(TokenB, Some(<<"p1">>), <<"p1", "y">>, "B", None)>>
    /\ lastOp = [op |-> "new"]
    /\ disk = [p \in AllLibraryPaths |-> DiskLibrary("ok", 0, None)]
    /\ heap = <<LoadLibrary(disk, <<"p1", "x">>).lib, LoadLibrary(disk, <<"p1", "y">>).lib>>
    /\ libraries = (TokenA :> 1) @@ (TokenB :> 2)
    /\ ReadersOff
    /\ WritebackOff
    /\ KicadOff
    /\ PartsOff
    /\ SchemaOff
    /\ CsvOff
    /\ LockOff
    /\ WatcherOff
    /\ AuthOff
    /\ AutoOff
    /\ TrayOff

\* The libraries a get of token t may return, given the reload state s that
\* the get saw: with a reload of t in flight, the one installed before it;
\* otherwise the one installed by the last finished reload of t.
ReloadCandidates(t, s) ==
    (IF s.pc = "insert" /\ s.token = t THEN {s.pre} ELSE {})
    \cup (IF s.pc = "idle" /\ s.last # None /\ s.last[1].token = t
          THEN {s.last[1].post} ELSE {})

\* An editor (or the operator) changes a library directory.
DiskEdit ==
    \E p \in LibraryPaths, st \in DiskStatuses \ {"missing"} :
        /\ disk[p].gen < MaxGen
        /\ disk' = [disk EXCEPT ![p] = DiskLibrary(st, disk[p].gen + 1, disk[p].description)]
        /\ UNCHANGED <<writebackVars, kicadVars, partsVars, schemaVars, csvVars, lockVars, persistVars, runtimeVars, readerVars, watcherVars, authVars, autoVars, trayVars>>

\* A reader calls get(token) and keeps the handle.
Get ==
    \E r \in Readers, t \in RegTokens :
        /\ handle' = [handle EXCEPT ![r] = RegistryGet(libraries, t)]
        /\ got' = [got EXCEPT ![r] =
                    Some([token |-> t,
                          value |-> IF t \in DOMAIN libraries
                                    THEN Some(heap[libraries[t]]) ELSE None,
                          inflight |-> (rl.pc = "insert" /\ rl.token = t),
                          expect |-> ReloadCandidates(t, rl)])]
        /\ UNCHANGED <<writebackVars, kicadVars, partsVars, schemaVars, csvVars, lockVars, persistVars, disk, runtimeVars, rl, watcherVars, authVars, autoVars, trayVars>>

\* A reader drops its handle.
DropHandle ==
    \E r \in Readers :
        /\ handle[r] # None
        /\ handle' = [handle EXCEPT ![r] = None]
        /\ got' = [got EXCEPT ![r] = None]
        /\ UNCHANGED <<writebackVars, kicadVars, partsVars, schemaVars, csvVars, lockVars, persistVars, disk, runtimeVars, rl, watcherVars, authVars, autoVars, trayVars>>

\* reload, first step: load_library(library_path)?; an error returns at once.
ReloadLoad ==
    \E e \in Range(persisted) :
        /\ rl.pc = "idle"
        /\ Len(heap) < MaxHeap
        /\ LET t == e.token
               res == LoadLibrary(disk, e.library_path)
               pre == IF t \in DOMAIN libraries THEN Some(heap[libraries[t]]) ELSE None
           IN  rl' = IF res.ok
                     THEN [pc |-> "insert", token |-> t, library |-> res.lib, pre |-> pre,
                           last |-> rl.last]
                     ELSE [pc |-> "idle",
                           last |-> Some([token |-> t, ok |-> FALSE, pre |-> pre, post |-> pre])]
        /\ UNCHANGED <<writebackVars, kicadVars, partsVars, schemaVars, csvVars, lockVars, persistVars, disk, runtimeVars, handle, got, watcherVars, authVars, autoVars, trayVars>>

\* reload, second step: self.libraries.insert(token, Arc::new(library)).
ReloadInsert ==
    /\ rl.pc = "insert"
    /\ LET rt == RegistryInsert(Runtime(heap, libraries), rl.token, rl.library)
       IN  /\ heap' = rt.heap
           /\ libraries' = rt.libraries
    /\ rl' = [pc |-> "idle",
              last |-> Some([token |-> rl.token, ok |-> TRUE, pre |-> rl.pre,
                             post |-> Some(rl.library)])]
    /\ UNCHANGED <<writebackVars, kicadVars, partsVars, schemaVars, csvVars, lockVars, persistVars, disk, handle, got, watcherVars, authVars, autoVars, trayVars>>

NextRegistry == DiskEdit \/ Get \/ DropHandle \/ ReloadLoad \/ ReloadInsert

SpecRegistry == InitRegistry /\ [][NextRegistry]_vars

----------------------------------------------------------------------------
(* Content watcher: watcher.rs *)

IsPrefix(a, b) == Len(a) <= Len(b) /\ SubSeq(b, 1, Len(a)) = a

\* Path::exists on a library directory.
PathExists(d, library_path) == d[library_path].status # "missing"

\* A file name is the sequence of its dot-separated parts: <<"r", "csv">> is
\* r.csv, <<"", "csv">> is .csv, <<"notes">> is notes.  Path::extension is
\* the part after the last dot, and None when there is no dot or when the
\* only dot starts the name.
Extension(file) ==
    IF Len(file) < 2 THEN None
    ELSE IF Len(file) = 2 /\ file[1] = "" THEN None
    ELSE Some(file[Len(file)])

\* path.extension().and_then(|e| e.to_str()).unwrap_or("")
ExtOrEmpty(file) == IF Extension(file) = None THEN "" ELSE Extension(file)[1]

DebouncedEvent(dir, file, kind) == [dir |-> dir, file |-> file, kind |-> kind]

\* event.path.starts_with(watch_path): component-wise prefix; watch paths are
\* directories, so the prefix is one of the file's directory.
PathStartsWith(event, watch_path) == IsPrefix(watch_path, event.dir)

\* watch_entries: one (watch_path, token, library_path) per registry entry
\* whose library path exists, in registry order.
RECURSIVE WatchEntries(_, _)
WatchEntries(projects, d) ==
    IF projects = <<>> THEN <<>>
    ELSE LET entry == Head(projects)
         IN  (IF PathExists(d, entry.library_path)
              THEN <<[watch_path |-> entry.library_path, token |-> entry.token,
                      library_path |-> entry.library_path]>>
              ELSE <<>>)
             \o WatchEntries(Tail(projects), d)

\* The inner loop over the entries: the first entry whose watch_path is a
\* prefix of the event path is reloaded, then the loop breaks.
RECURSIVE FirstMatch(_, _)
FirstMatch(ents, event) ==
    IF ents = <<>> THEN <<>>
    ELSE IF PathStartsWith(event, Head(ents).watch_path) THEN <<Head(ents)>>
         ELSE FirstMatch(Tail(ents), event)

\* The entries reload is called on for one event of a batch.
ReloadTargets(ents, event) ==
    IF event.kind # "Any" THEN <<>>
    ELSE IF ExtOrEmpty(event.file) \notin {"csv", "yaml", "yml"} THEN <<>>
    ELSE FirstMatch(ents, event)

\* Calls reload for the targets in order; the result of each call is logged
\* and otherwise ignored.
RECURSIVE ReloadEach(_, _, _, _)
ReloadEach(targets, rt, d, calls) ==
    IF targets = <<>> THEN [rt |-> rt, calls |-> calls]
    ELSE LET e == Head(targets)
             r == Reload(rt, d, e.token, e.library_path)
         IN  ReloadEach(Tail(targets), r.rt, d,
                        Append(calls, [token |-> e.token, library_path |-> e.library_path,
                                       ok |-> r.ok]))

EventsMsg(events) == [tag |-> "events", events |-> events]

ErrorMsg == [tag |-> "error", events |-> <<>>]

----------------------------------------------------------------------------
(* Specification SpecWatcher: start_watching was called at startup on a     *)
(* registry of two entries; files change on disk, the debouncer sends       *)
(* batches, the watcher thread handles them one event at a time.            *)

EventDirs == {NestedPath, <<"p1", "y">>}

EventFiles == {<<"r", "csv">>, <<"library", "yaml">>, <<"t", "yml">>,
               <<"notes", "txt">>, <<"", "csv">>}

\* What a write of the file can make of the library: a CSV file can become
\* malformed, library.yaml unparsable, a schema file unresolvable.
StatusAfterWrite(file, old) ==
    IF file = <<"r", "csv">> THEN {"ok", "bad_csv"}
    ELSE IF file = <<"library", "yaml">> THEN {"ok", "bad_manifest"}
    ELSE IF file = <<"t", "yml">> THEN {"ok", "bad_schema"}
    ELSE {IF old = "missing" THEN "bad_manifest" ELSE old}

\* The debouncer reports a settled write as Any; a file that is still being
\* written is reported as AnyContinuous.
EventKinds(file) == IF file = <<"r", "csv">> THEN {"Any", "AnyContinuous"} ELSE {"Any"}

\* The library paths of the two registry entries, and the directories that
\* do not exist at startup.
WatchConfigs ==
    {[lp1 |-> <<"p1", "x">>, lp2 |-> <<"p1", "x">>, missing |-> {}],
     [lp1 |-> <<"p1", "x">>, lp2 |-> NestedPath, missing |-> {}],
     [lp1 |-> NestedPath, lp2 |-> <<"p1", "x">>, missing |-> {}],
     [lp1 |-> <<"p1", "x">>, lp2 |-> <<"p1", "y">>, missing |-> {}],
     [lp1 |-> <<"p1", "x">>, lp2 |-> <<"p1", "y">>, missing |-> {<<"p1", "y">>}],
     [lp1 |-> <<"p1", "y">>, lp2 |-> <<"p1", "y">>, missing |-> {}],
     [lp1 |-> <<"p1", "y">>, lp2 |-> <<"p1", "y">>, missing |-> {<<"p1", "y">>}]}

RECURSIVE SumGen(_, _)
SumGen(d, paths) ==
    IF paths = {} THEN 0
    ELSE LET p == CHOOSE q \in paths : TRUE
         IN  d[p].gen + SumGen(d, paths \ {p})

InitWatcher ==
    \E cfg \in WatchConfigs :
      LET lp1 == cfg.lp1
          lp2 == cfg.lp2
          missing == cfg.missing
      IN
        /\ persisted = <<ProjectEntry(TokenA, None, lp1, "A", None),
                         ProjectEntry(TokenB, Some(<<"p1">>), lp2, "B", None)>>
        /\ lastOp = [op |-> "new"]
        /\ disk = [p \in AllLibraryPaths |->
                    DiskLibrary(IF p \in missing THEN "missing" ELSE "ok", 0, None)]
        /\ heap = FromPersisted(persisted, disk).heap
        /\ libraries = FromPersisted(persisted, disk).libraries
        /\ ReadersOff
        /\ WritebackOff
        /\ KicadOff
        /\ PartsOff
        /\ SchemaOff
        /\ CsvOff
        /\ LockOff
        /\ AuthOff
        /\ AutoOff
        /\ TrayOff
        /\ entries = WatchEntries(persisted, disk)
        /\ watcher = IF entries = <<>> THEN "none" ELSE "running"
        /\ channel = <<>>
        /\ lastEv = None
        /\ existed = {p \in AllLibraryPaths : PathExists(disk, p)}

\* The debouncer's send: the event joins the batch being collected (the last
\* message, while it has room) or starts a new batch.
Send(ch, event) ==
    IF ch # <<>> /\ ch[Len(ch)].tag = "events" /\ Len(ch[Len(ch)].events) < MaxBatch
    THEN [ch EXCEPT ![Len(ch)] = EventsMsg(Append(ch[Len(ch)].events, event))]
    ELSE Append(ch, EventsMsg(<<event>>))

CanSend(ch) ==
    \/ Len(ch) < MaxChannel
    \/ ch # <<>> /\ ch[Len(ch)].tag = "events" /\ Len(ch[Len(ch)].events) < MaxBatch

\* A file in a library directory is written; the file belongs to every
\* library whose directory contains it.  The debouncer reports the write
\* when the directory lies under a watched path.
FsChange ==
    \E dir \in EventDirs, file \in EventFiles :
      \E kind \in EventKinds(file), st \in StatusAfterWrite(file, disk[dir].status) :
        /\ SumGen(disk, EventDirs) < MaxEdits
        /\ disk' = [p \in AllLibraryPaths |->
                    IF IsPrefix(p, dir)
                    THEN DiskLibrary(st, disk[p].gen + 1, disk[p].description)
                    ELSE disk[p]]
        /\ IF watcher = "running"
              /\ \E i \in DOMAIN entries : IsPrefix(entries[i].watch_path, dir)
           THEN /\ CanSend(channel)
                /\ channel' = Send(channel, DebouncedEvent(dir, file, kind))
           ELSE channel' = channel
        /\ UNCHANGED <<writebackVars, kicadVars, partsVars, schemaVars, csvVars, lockVars, persistVars, runtimeVars, readerVars, entries, watcher, lastEv, existed, authVars, autoVars, trayVars>>

\* The debouncer reports a watch error.
FsError ==
    /\ watcher = "running"
    /\ Len(channel) < MaxChannel
    /\ channel' = Append(channel, ErrorMsg)
    /\ UNCHANGED <<writebackVars, kicadVars, partsVars, schemaVars, csvVars, lockVars, persistVars, disk, runtimeVars, readerVars, entries, watcher, lastEv, existed, authVars, autoVars, trayVars>>

Seq01(ev) == IF ev = None THEN 0 ELSE 1 - ev[1].seq

HadFailure(ev) == ev # None /\ \E i \in DOMAIN ev[1].calls : ~ev[1].calls[i].ok

\* Ok(Ok(events)): one iteration of the loop over the events of the batch.
WatcherEvent ==
    /\ watcher = "running"
    /\ channel # <<>>
    /\ Head(channel).tag = "events"
    /\ Len(heap) < MaxHeap
    /\ LET event == Head(Head(channel).events)
           rest == Tail(Head(channel).events)
           res == ReloadEach(ReloadTargets(entries, event), Runtime(heap, libraries), disk, <<>>)
       IN  /\ heap' = res.rt.heap
           /\ libraries' = res.rt.libraries
           /\ channel' = IF rest = <<>> THEN Tail(channel)
                         ELSE <<EventsMsg(rest)>> \o Tail(channel)
           /\ lastEv' = Some([tag |-> "event", event |-> event, calls |-> res.calls,
                              seq |-> Seq01(lastEv), prevFailed |-> HadFailure(lastEv)])
    /\ UNCHANGED <<writebackVars, kicadVars, partsVars, schemaVars, csvVars, lockVars, persistVars, disk, readerVars, entries, watcher, existed, authVars, autoVars, trayVars>>

\* Ok(Err(e)): the watch error is logged.
WatcherError ==
    /\ watcher = "running"
    /\ channel # <<>>
    /\ Head(channel).tag = "error"
    /\ channel' = Tail(channel)
    /\ lastEv' = Some([tag |-> "error", event |-> None, calls |-> <<>>,
                       seq |-> Seq01(lastEv), prevFailed |-> HadFailure(lastEv)])
    /\ UNCHANGED <<writebackVars, kicadVars, partsVars, schemaVars, csvVars, lockVars, persistVars, disk, runtimeVars, readerVars, entries, watcher, existed, authVars, autoVars, trayVars>>

NextWatcher == FsChange \/ FsError \/ WatcherEvent \/ WatcherError

SpecWatcher == InitWatcher /\ [][NextWatcher]_vars

----------------------------------------------------------------------------
(* Auth middleware: middleware.rs *)

\* A header value: bytes that are visible ASCII (to_str succeeds, text is
\* the string as a sequence of characters) or not (to_str fails).
HeaderValue(ascii, text) == [ascii |-> ascii, text |-> text]

TokenPrefix == <<"T", "o", "k", "e", "n", " ">>

\* str::strip_prefix: the rest of s after prefix, or None.
StripPrefix(s, prefix) ==
    IF Len(s) >= Len(prefix) /\ SubSeq(s, 1, Len(prefix)) = prefix
    THEN Some(SubSeq(s, Len(prefix) + 1, Len(s)))
    ELSE None

Unauthorized == [status |-> 401, library |-> None]

Served(a) == [status |-> 200, library |-> Some(a)]

\* A plausible slip: the single-project shortcut is lost, the header is
\* always required.
AuthDecisionAlwaysHeader(tokens, libs, header) ==
    IF header = None \/ ~header[1].ascii THEN Unauthorized
    ELSE LET token == StripPrefix(header[1].text, TokenPrefix)
         IN  IF token = None THEN Unauthorized
             ELSE IF RegistryGet(libs, token[1]) = None THEN Unauthorized
             ELSE Served(RegistryGet(libs, token[1])[1])

\* A plausible slip: the header's scheme is not checked, whatever follows the
\* first six characters is taken as the token.
AuthDecisionAnyScheme(tokens, libs, header) ==
    IF Cardinality(tokens) = 1 /\ RegistryGet(libs, CHOOSE t \in tokens : TRUE) # None
    THEN Served(RegistryGet(libs, CHOOSE t \in tokens : TRUE)[1])
    ELSE IF header = None \/ ~header[1].ascii THEN Unauthorized
    ELSE LET text == header[1].text
             token == SubSeq(text, Len(TokenPrefix) + 1, Len(text))
         IN  IF RegistryGet(libs, token) = None THEN Unauthorized
             ELSE Served(RegistryGet(libs, token)[1])

\* auth_middleware after registry.tokens(): tokens is the list it returned,
\* libs the registry that the get calls read.  With one token listed and
\* still present the request is served from it; otherwise the Authorization
\* header must be there, be text, start with "Token " and name a token of
\* the registry.
AuthDecision(tokens, libs, header) ==
    IF Cardinality(tokens) = 1 /\ RegistryGet(libs, CHOOSE t \in tokens : TRUE) # None
    THEN Served(RegistryGet(libs, CHOOSE t \in tokens : TRUE)[1])
    ELSE IF header = None \/ ~header[1].ascii THEN Unauthorized
    ELSE LET token == StripPrefix(header[1].text, TokenPrefix)
         IN  IF token = None THEN Unauthorized
             ELSE IF RegistryGet(libs, token[1]) = None THEN Unauthorized
             ELSE Served(RegistryGet(libs, token[1])[1])

----------------------------------------------------------------------------
(* Specification SpecAuth: requests pass the middleware while tokens are    *)
(* inserted into and removed from the runtime registry.  The middleware     *)
(* reads the registry twice: tokens() (middleware.rs:27), then get.         *)

Headers ==
    {None}
    \cup {Some(HeaderValue(TRUE, TokenPrefix \o t)) :
            t \in {TokenA, TokenB, <<"z">>, <<>>, <<" ", "a">>}}
    \cup {Some(HeaderValue(TRUE, <<"t", "o", "k", "e", "n", " ", "a">>)),
          Some(HeaderValue(TRUE, <<"T", "o", "k", "e", "n", "a">>)),
          Some(HeaderValue(TRUE, <<"B", "e", "a", "r", "e", "r", "a">>)),
          Some(HeaderValue(TRUE, TokenA)),
          Some(HeaderValue(FALSE, <<>>))}

InitAuth ==
    /\ persisted = <<>>
    /\ lastOp = [op |-> "new"]
    /\ disk = [p \in AllLibraryPaths |-> DiskLibrary("ok", 0, None)]
    /\ heap = <<>>
    /\ libraries = <<>>
    /\ ReadersOff
    /\ WritebackOff
    /\ KicadOff
    /\ PartsOff
    /\ SchemaOff
    /\ CsvOff
    /\ LockOff
    /\ WatcherOff
    /\ AuthOff
    /\ AutoOff
    /\ TrayOff

\* registry.insert(token, library), as called by auto-registration.
AuthInsert ==
    \E t \in RegTokens, p \in LibraryPaths :
        /\ Len(heap) < MaxHeap
        /\ LET rt == RegistryInsert(Runtime(heap, libraries), t, LoadLibrary(disk, p).lib)
           IN  /\ heap' = rt.heap
               /\ libraries' = rt.libraries
        /\ UNCHANGED <<writebackVars, kicadVars, partsVars, schemaVars, csvVars, lockVars, persistVars, disk, readerVars, watcherVars, authVars, autoVars, trayVars>>

\* registry.remove(token), as called by remove_project.
AuthRemove ==
    \E t \in DOMAIN libraries :
        /\ libraries' = RegistryRemove(libraries, t)
        /\ UNCHANGED <<writebackVars, kicadVars, partsVars, schemaVars, csvVars, lockVars, persistVars, disk, heap, readerVars, watcherVars, authVars, autoVars, trayVars>>

\* A request arrives; the middleware calls registry.tokens().
AuthRequest ==
    \E h \in Headers :
        /\ req.pc \in {"none", "done"}
        /\ req' = [pc |-> "tokens", header |-> h, tokens |-> RegistryTokens(libraries)]
        /\ UNCHANGED <<writebackVars, kicadVars, partsVars, schemaVars, csvVars, lockVars, persistVars, disk, runtimeVars, readerVars, watcherVars, autoVars, trayVars>>

\* The rest of the middleware: the request is passed on with its library, or
\* answered 401.
AuthDecide ==
    /\ req.pc = "tokens"
    /\ req' = [pc |-> "done", header |-> req.header, tokens |-> req.tokens,
               registry |-> libraries,
               response |-> AuthDecision(req.tokens, libraries, req.header)]
    /\ UNCHANGED <<writebackVars, kicadVars, partsVars, schemaVars, csvVars, lockVars, persistVars, disk, runtimeVars, readerVars, watcherVars, autoVars, trayVars>>

NextAuth == AuthInsert \/ AuthRemove \/ AuthRequest \/ AuthDecide

SpecAuth == InitAuth /\ [][NextAuth]_vars

----------------------------------------------------------------------------
(* Auto-registration: discovery/auto_register.rs *)

Port == 18734

Digits == <<"0", "1", "2", "3", "4", "5", "6", "7", "8", "9">>

\* uuid::Uuid::new_v4().to_string(): the n-th fresh token.
Uuid(n) == <<"u", Digits[(n \div 10) + 1], Digits[(n % 10) + 1]>>

LibraryRef(name, path) == [name |-> name, path |-> path]

\* load_project_config: an unreadable kicodex.yaml is ProjectError::Io, an
\* unparsable one ProjectError::Yaml.
ProjectConfig(status, libs) == [status |-> status, libraries |-> libs]

\* Path::canonicalize resolves "." and ".." and needs the result to exist.
RECURSIVE Normalize(_, _)
Normalize(path, acc) ==
    IF path = <<>> THEN acc
    ELSE IF Head(path) = "." THEN Normalize(Tail(path), acc)
    ELSE IF Head(path) = ".."
         THEN Normalize(Tail(path), IF acc = <<>> THEN acc ELSE SubSeq(acc, 1, Len(acc) - 1))
    ELSE Normalize(Tail(path), Append(acc, Head(path)))

Canonicalize(d, path) ==
    LET n == Normalize(path, <<>>)
    IN  IF n \in DOMAIN d /\ d[n].status # "missing" THEN Some(n) ELSE None

\* project_dir.join(path).canonicalize().unwrap_or_else(|_| joined)
ResolveLibraryPath(d, project_dir, path) ==
    LET joined == project_dir \o path
    IN  IF Canonicalize(d, joined) = None THEN joined ELSE Canonicalize(d, joined)[1]

\* resolve_description: texts are sequences of string pieces.
ResolveDescription(name, description) ==
    IF description = None THEN <<"KiCodex HTTP Library for ", name>> ELSE description[1]

\* expected_httplib_content: the template with its four holes filled.
ExpectedHttplibContent(name, description, token, port) ==
    [name |-> name, description |-> description, root_url_port |-> port, token |-> token]

\* ensure_httplib_file: the file <dir>/<name>.kicad_httplib is left alone
\* when it exists with the expected content, and written otherwise.
EnsureHttplibFile(fs, project_dir, name, description, token, port) ==
    LET key == <<project_dir, name>>
        expected == ExpectedHttplibContent(name, ResolveDescription(name, description),
                                           token, port)
    IN  IF key \in DOMAIN fs /\ fs[key] = expected
        THEN [files |-> fs, wrote |-> FALSE]
        ELSE [files |-> [k \in DOMAIN fs \cup {key} |-> IF k = key THEN expected ELSE fs[k]],
              wrote |-> TRUE]

\* The lookup at the head of the loop: the first entry of this project with
\* the library's name.
RECURSIVE ExistingEntry(_, _, _)
ExistingEntry(projects, project_path, name) ==
    IF projects = <<>> THEN None
    ELSE IF Head(projects).project_path = Some(project_path) /\ Head(projects).name = name
         THEN Some(Head(projects))
         ELSE ExistingEntry(Tail(projects), project_path, name)

AutoState(projects, rt, fs, sv, next) ==
    [persisted |-> projects, rt |-> rt, files |-> fs, saved |-> sv, nextToken |-> next]

AutoResult(st, ok, n, upserted, writes) ==
    [st |-> st, ok |-> ok, n |-> n, upserted |-> upserted, writes |-> writes]

\* The end of try_auto_register: the registry is saved when something was
\* registered and the registry path is known.
AutoRegisterFinish(st, cfgDir, n, upserted, writes) ==
    AutoResult(IF n > 0 /\ cfgDir
               THEN AutoState(st.persisted, st.rt, st.files, Some(st.persisted), st.nextToken)
               ELSE st,
               TRUE, n, upserted, writes)

\* The loop over config.libraries.  A library that is already registered
\* gets its descriptor file reconciled; a new one is loaded (an error
\* returns from the whole call), given a fresh token, upserted, inserted
\* into the runtime registry and given its descriptor file.
RECURSIVE AutoRegisterLoop(_, _, _, _, _, _, _, _, _)
AutoRegisterLoop(libs, project_dir, st, d, cfgDir, port, n, upserted, writes) ==
    IF libs = <<>> THEN AutoRegisterFinish(st, cfgDir, n, upserted, writes)
    ELSE
      LET lib_ref == Head(libs)
          existing == ExistingEntry(st.persisted, project_dir, lib_ref.name)
      IN  IF existing # None
          THEN LET f == EnsureHttplibFile(st.files, project_dir, lib_ref.name,
                                          existing[1].description, existing[1].token, port)
               IN  AutoRegisterLoop(Tail(libs), project_dir,
                                    AutoState(st.persisted, st.rt, f.files, st.saved, st.nextToken),
                                    d, cfgDir, port, n, upserted,
                                    IF f.wrote THEN Append(writes, <<project_dir, lib_ref.name>>)
                                    ELSE writes)
          ELSE
            LET library_path == ResolveLibraryPath(d, project_dir, lib_ref.path)
                res == LoadLibrary(d, library_path)
            IN  IF ~res.ok THEN AutoResult(st, FALSE, 0, upserted, writes)
                ELSE
                  LET token == Uuid(st.nextToken)
                      entry == ProjectEntry(token, Some(project_dir), library_path,
                                            lib_ref.name, res.lib.description)
                      f == EnsureHttplibFile(st.files, project_dir, lib_ref.name,
                                             res.lib.description, token, port)
                  IN  AutoRegisterLoop(Tail(libs), project_dir,
                                       AutoState(Upsert(st.persisted, entry),
                                                 RegistryInsert(st.rt, token, res.lib),
                                                 f.files, st.saved, st.nextToken + 1),
                                       d, cfgDir, port, n + 1, Append(upserted, entry),
                                       IF f.wrote THEN Append(writes, <<project_dir, lib_ref.name>>)
                                       ELSE writes)

\* try_auto_register: without a readable kicodex.yaml the directory is not a
\* project (Ok(0)); an unparsable one is an error.
TryAutoRegister(project_dir, st, d, mf, cfgDir, port) ==
    IF mf[project_dir].status = "missing" THEN AutoResult(st, TRUE, 0, <<>>, <<>>)
    ELSE IF mf[project_dir].status = "bad" THEN AutoResult(st, FALSE, 0, <<>>, <<>>)
    ELSE AutoRegisterLoop(mf[project_dir].libraries, project_dir, st, d, cfgDir, port,
                          0, <<>>, <<>>)

----------------------------------------------------------------------------
(* Specification SpecAuto: try_auto_register is called again and again on   *)
(* the project directories, starting with empty registries (the registries  *)
(* of test_auto_register_with_kicodex_yaml), for every manifest of up to    *)
(* MaxLibs libraries and every state of the two library directories.        *)

LibRefPaths == {<<"x">>, <<"y">>, <<".", "x">>}

LibRefs == {LibraryRef(n, p) : n \in LibNames, p \in LibRefPaths}

RECURSIVE SeqsUpTo(_, _)
SeqsUpTo(S, n) ==
    IF n = 0 THEN {<<>>}
    ELSE LET shorter == SeqsUpTo(S, n - 1)
         IN  shorter \cup {Append(q, x) : q \in shorter, x \in S}

Manifests ==
    {ProjectConfig("missing", <<>>), ProjectConfig("bad", <<>>)}
    \cup {ProjectConfig("ok", libs) : libs \in SeqsUpTo(LibRefs, MaxLibs)}

InitAuto ==
    \E m \in Manifests, sx \in {"ok", "bad_csv"}, sy \in {"ok", "bad_manifest", "missing"},
       cd \in BOOLEAN :
        /\ persisted = <<>>
        /\ lastOp = [op |-> "new"]
        /\ disk = [p \in AllLibraryPaths |->
                    IF p = <<"p1", "x">> THEN DiskLibrary(sx, 0, None)
                    ELSE IF p = <<"p1", "y">> THEN DiskLibrary(sy, 0, Some(<<"d">>))
                    ELSE DiskLibrary("ok", 0, None)]
        /\ heap = <<>>
        /\ libraries = <<>>
        /\ ReadersOff
        /\ WritebackOff
        /\ KicadOff
        /\ PartsOff
        /\ SchemaOff
        /\ CsvOff
        /\ LockOff
        /\ WatcherOff
        /\ AuthOff
        /\ manifest = [dir \in ProjectDirs |->
                        IF dir = <<"p1">> THEN m ELSE ProjectConfig("missing", <<>>)]
        /\ files = <<>>
        /\ saved = None
        /\ nextToken = 0
        /\ configDir = cd
        /\ lastCall = None
        /\ prevCall = None
        /\ TrayOff

\* What a call leaves behind: the persistent registry, the runtime
\* registry's tokens and the descriptor files.
AutoSnapshot(st) ==
    [persisted |-> st.persisted, tokens |-> RegistryTokens(st.rt.libraries), files |-> st.files]

\* One call of try_auto_register(project_dir, persisted, registry, port).
AutoRegisterCall ==
    \E dir \in ProjectDirs :
        /\ nextToken < MaxTokens
        /\ LET res == TryAutoRegister(dir, AutoState(persisted, Runtime(heap, libraries),
                                                     files, saved, nextToken),
                                      disk, manifest, configDir, Port)
           IN  /\ persisted' = res.st.persisted
               /\ heap' = res.st.rt.heap
               /\ libraries' = res.st.rt.libraries
               /\ files' = res.st.files
               /\ saved' = res.st.saved
               /\ nextToken' = res.st.nextToken
               /\ lastCall' = Some([dir |-> dir, ok |-> res.ok, n |-> res.n,
                                    upserted |-> res.upserted, writes |-> res.writes,
                                    before |-> AutoSnapshot(AutoState(persisted,
                                                   Runtime(heap, libraries), files, saved,
                                                   nextToken)),
                                    after |-> AutoSnapshot(res.st)])
               /\ prevCall' = lastCall
        /\ UNCHANGED <<writebackVars, kicadVars, partsVars, schemaVars, csvVars, lockVars, lastOp, disk, readerVars, watcherVars, authVars, manifest, configDir,
                       trayVars>>

NextAuto == AutoRegisterCall

SpecAuto == InitAuto /\ [][NextAuto]_vars

----------------------------------------------------------------------------
(* Specification SpecReconcile: try_auto_register on a project one of whose *)
(* libraries is registered already, as test_ensures_httplib_when_already_   *)
(* registered and test_rewrites_httplib_with_stale_token set it up: the     *)
(* descriptor file is missing, correct, or written for another token, port  *)
(* or description.                                                          *)

RegisteredEntry == ProjectEntry(TokenA, Some(<<"p1">>), <<"p1", "x">>, "A", None)

DescriptorStates ==
    LET d == ResolveDescription("A", None)
    IN  {None,
         Some(ExpectedHttplibContent("A", d, TokenA, Port)),
         Some(ExpectedHttplibContent("A", d, TokenB, Port)),
         Some(ExpectedHttplibContent("A", d, TokenA, Port - 1)),
         Some(ExpectedHttplibContent("A", <<"d">>, TokenA, Port))}

InitReconcile ==
    \E m \in Manifests, sx \in {"ok", "bad_csv"}, sy \in {"ok", "missing"},
       f \in DescriptorStates :
        /\ persisted = <<RegisteredEntry>>
        /\ lastOp = [op |-> "new"]
        /\ disk = [p \in AllLibraryPaths |->
                    IF p = <<"p1", "x">> THEN DiskLibrary(sx, 0, None)
                    ELSE IF p = <<"p1", "y">> THEN DiskLibrary(sy, 0, Some(<<"d">>))
                    ELSE DiskLibrary("ok", 0, None)]
        /\ heap = <<>>
        /\ libraries = <<>>
        /\ ReadersOff
        /\ WritebackOff
        /\ KicadOff
        /\ PartsOff
        /\ SchemaOff
        /\ CsvOff
        /\ LockOff
        /\ WatcherOff
        /\ AuthOff
        /\ manifest = [dir \in ProjectDirs |->
                        IF dir = <<"p1">> THEN m ELSE ProjectConfig("missing", <<>>)]
        /\ files = IF f = None THEN <<>> ELSE (<<<<"p1">>, "A">> :> f[1])
        /\ saved = None
        /\ nextToken = 0
        /\ configDir = TRUE
        /\ lastCall = None
        /\ prevCall = None
        /\ TrayOff

SpecReconcile == InitReconcile /\ [][NextAuto]_vars

----------------------------------------------------------------------------
(* CSV files: data/csv_loader.rs.  A text is a sequence of characters, a    *)
(* field a sequence of characters, a record a sequence of fields.  A CsvRow *)
(* (an IndexMap) is a sequence of [k, v] pairs with distinct keys, in       *)
(* insertion order.                                                         *)

COMMA == ","

QUOTE == "\""

NL == "\n"

\* The column name "id".
IdKey == <<"i", "d">>

\* The csv reader (has_headers, not flexible, no trimming): quoted fields
\* with doubled quotes, a quote inside an unquoted field is data, empty
\* lines are skipped, the end of the text ends the last record.
RECURSIVE ParseCsv(_, _, _, _, _, _)
ParseCsv(text, i, mode, field, record, records) ==
    IF i > Len(text)
    THEN IF mode = "record" THEN records ELSE Append(records, Append(record, field))
    ELSE
      LET c == text[i]
          endField == ParseCsv(text, i + 1, "field", <<>>, Append(record, field), records)
          endRecord == ParseCsv(text, i + 1, "record", <<>>, <<>>,
                                Append(records, Append(record, field)))
          data(m) == ParseCsv(text, i + 1, m, Append(field, c), record, records)
      IN  CASE mode \in {"record", "field"} ->
                 IF c = NL
                 THEN IF mode = "record"
                      THEN ParseCsv(text, i + 1, "record", <<>>, <<>>, records)
                      ELSE endRecord
                 ELSE IF c = COMMA THEN endField
                 ELSE IF c = QUOTE THEN ParseCsv(text, i + 1, "quoted", <<>>, record, records)
                 ELSE data("unquoted")
            [] mode = "unquoted" ->
                 IF c = NL THEN endRecord
                 ELSE IF c = COMMA THEN endField
                 ELSE data("unquoted")
            [] mode = "quoted" ->
                 IF c = QUOTE THEN ParseCsv(text, i + 1, "quote", field, record, records)
                 ELSE data("quoted")
            [] mode = "quote" ->
                 IF c = QUOTE THEN data("quoted")
                 ELSE IF c = NL THEN endRecord
                 ELSE IF c = COMMA THEN endField
                 ELSE data("unquoted")

RECURSIVE DoubleQuotes(_)
DoubleQuotes(field) ==
    IF field = <<>> THEN <<>>
    ELSE (IF Head(field) = QUOTE THEN <<QUOTE, QUOTE>> ELSE <<Head(field)>>)
         \o DoubleQuotes(Tail(field))

\* A plausible slip: fields are written as they are.
WriteFieldUnquoted(field, sole) == field

\* The csv writer quotes a field when it has to: the field holds a comma, a
\* quote or a line end, or is the empty only field of its record.
WriteField(field, sole) ==
    IF (\E i \in DOMAIN field : field[i] \in {COMMA, QUOTE, NL}) \/ (field = <<>> /\ sole)
    THEN <<QUOTE>> \o DoubleQuotes(field) \o <<QUOTE>>
    ELSE field

RECURSIVE WriteFields(_, _)
WriteFields(fields, sole) ==
    IF fields = <<>> THEN <<>>
    ELSE WriteField(Head(fields), sole)
         \o (IF Tail(fields) = <<>> THEN <<NL>> ELSE <<COMMA>>)
         \o WriteFields(Tail(fields), sole)

\* writer.write_record: a record of no fields is written as one quoted
\* empty field.
WriteRecord(fields) ==
    IF fields = <<>> THEN <<QUOTE, QUOTE, NL>> ELSE WriteFields(fields, Len(fields) = 1)

RECURSIVE WriteRecords(_)
WriteRecords(records) ==
    IF records = <<>> THEN <<>> ELSE WriteRecord(Head(records)) \o WriteRecords(Tail(records))

\* IndexMap: keys, get and insert (an existing key keeps its place).
Keys(row) == [i \in DOMAIN row |-> row[i].k]

HasKey(row, key) == \E i \in DOMAIN row : row[i].k = key

RowGet(row, key) ==
    IF HasKey(row, key) THEN Some(row[CHOOSE i \in DOMAIN row : row[i].k = key].v) ELSE None

RowInsert(row, key, value) ==
    IF HasKey(row, key)
    THEN [i \in DOMAIN row |-> IF row[i].k = key THEN [k |-> key, v |-> value] ELSE row[i]]
    ELSE Append(row, [k |-> key, v |-> value])

\* The row of a record: one insert per header, in order.
RECURSIVE RowOf(_, _, _, _)
RowOf(headers, record, i, row) ==
    IF i > Len(headers) THEN row
    ELSE RowOf(headers, record, i + 1,
               RowInsert(row, headers[i], IF i <= Len(record) THEN record[i] ELSE <<>>))

\* write_csv: nothing is written for no rows; otherwise the keys of the
\* first row are the header line and every row gives its value for each of
\* them, or the empty string.
WriteCsv(file, rows) ==
    IF rows = <<>> THEN file
    ELSE LET headers == Keys(rows[1])
             record(row) == [i \in DOMAIN headers |->
                               IF RowGet(row, headers[i]) = None THEN <<>>
                               ELSE RowGet(row, headers[i])[1]]
         IN  Some(WriteRecords(<<headers>> \o [r \in DOMAIN rows |-> record(rows[r])]))

\* A plausible slip: every row of a repeated id gets a fresh one, the first
\* occurrence too.
RECURSIVE AssignIdsReplaceEveryDuplicate(_, _, _, _, _, _)
AssignIdsReplaceEveryDuplicate(rows, has_id_column, seen_ids, next, out, assigned) ==
    IF rows = <<>> THEN [rows |-> out, next |-> next, needs_writeback |-> assigned]
    ELSE
      LET row == Head(rows)
          id == IF RowGet(row, IdKey) = None THEN <<>> ELSE RowGet(row, IdKey)[1]
          later == \E r \in 2..Len(rows) : RowGet(rows[r], IdKey) = Some(id)
      IN  IF ~has_id_column
          THEN AssignIdsReplaceEveryDuplicate(Tail(rows), has_id_column,
                         seen_ids \cup {Uuid(next)}, next + 1,
                         Append(out, <<[k |-> IdKey, v |-> Uuid(next)]>> \o row), TRUE)
          ELSE IF id = <<>> \/ id \in seen_ids \/ later
          THEN AssignIdsReplaceEveryDuplicate(Tail(rows), has_id_column,
                         seen_ids \cup {Uuid(next), id}, next + 1,
                         Append(out, RowInsert(row, IdKey, Uuid(next))), TRUE)
          ELSE AssignIdsReplaceEveryDuplicate(Tail(rows), has_id_column, seen_ids \cup {id},
                         next, Append(out, row), assigned)

\* A plausible slip: a repeated id is kept.
RECURSIVE AssignIdsKeepDuplicates(_, _, _, _, _, _)
AssignIdsKeepDuplicates(rows, has_id_column, seen_ids, next, out, assigned) ==
    IF rows = <<>> THEN [rows |-> out, next |-> next, needs_writeback |-> assigned]
    ELSE
      LET row == Head(rows)
          id == IF RowGet(row, IdKey) = None THEN <<>> ELSE RowGet(row, IdKey)[1]
      IN  IF ~has_id_column
          THEN AssignIdsKeepDuplicates(Tail(rows), has_id_column, seen_ids \cup {Uuid(next)},
                         next + 1,
                         Append(out, <<[k |-> IdKey, v |-> Uuid(next)]>> \o row), TRUE)
          ELSE IF id = <<>>
          THEN AssignIdsKeepDuplicates(Tail(rows), has_id_column, seen_ids \cup {Uuid(next)},
                         next + 1, Append(out, RowInsert(row, IdKey, Uuid(next))), TRUE)
          ELSE AssignIdsKeepDuplicates(Tail(rows), has_id_column, seen_ids \cup {id}, next,
                         Append(out, row), assigned)

\* The loop that assigns ids: without an id column every row gets a fresh
\* id as its first column; with one, a row whose id is empty or was seen in
\* an earlier row gets a fresh id in place.
RECURSIVE AssignIds(_, _, _, _, _, _)
AssignIds(rows, has_id_column, seen_ids, next, out, assigned) ==
    IF rows = <<>> THEN [rows |-> out, next |-> next, needs_writeback |-> assigned]
    ELSE
      LET row == Head(rows)
          id == IF RowGet(row, IdKey) = None THEN <<>> ELSE RowGet(row, IdKey)[1]
      IN  IF ~has_id_column
          THEN AssignIds(Tail(rows), has_id_column, seen_ids \cup {Uuid(next)}, next + 1,
                         Append(out, <<[k |-> IdKey, v |-> Uuid(next)]>> \o row), TRUE)
          ELSE IF id = <<>> \/ id \in seen_ids
          THEN AssignIds(Tail(rows), has_id_column, seen_ids \cup {Uuid(next)}, next + 1,
                         Append(out, RowInsert(row, IdKey, Uuid(next))), TRUE)
          ELSE AssignIds(Tail(rows), has_id_column, seen_ids \cup {id}, next,
                         Append(out, row), assigned)

CsvErr(file, next) == [ok |-> FALSE, rows |-> <<>>, file |-> file, next |-> next, wrote |-> FALSE]

\* A plausible slip: the ids are assigned and the file is left as it was.
LoadCsvWithIdsNoWriteback(file, next) ==
    IF file = None THEN CsvErr(file, next)
    ELSE
      LET records == ParseCsv(file[1], 1, "record", <<>>, <<>>, <<>>)
          headers == IF records = <<>> THEN <<>> ELSE Head(records)
          data == IF records = <<>> THEN <<>> ELSE Tail(records)
      IN  IF headers = <<>> THEN CsvErr(file, next)
          ELSE IF \E r \in DOMAIN data : Len(data[r]) # Len(headers) THEN CsvErr(file, next)
          ELSE
            LET rows == [r \in DOMAIN data |-> RowOf(headers, data[r], 1, <<>>)]
                res == AssignIds(rows, Contains(headers, IdKey), {}, next, <<>>, FALSE)
            IN  [ok |-> TRUE, rows |-> res.rows, file |-> file,
                 next |-> res.next, wrote |-> FALSE]

\* load_csv_with_ids on the file (None: no such file).
LoadCsvWithIds(file, next) ==
    IF file = None THEN CsvErr(file, next)
    ELSE
      LET records == ParseCsv(file[1], 1, "record", <<>>, <<>>, <<>>)
          headers == IF records = <<>> THEN <<>> ELSE Head(records)
          data == IF records = <<>> THEN <<>> ELSE Tail(records)
      IN  IF headers = <<>> THEN CsvErr(file, next)
          ELSE IF \E r \in DOMAIN data : Len(data[r]) # Len(headers) THEN CsvErr(file, next)
          ELSE
            LET rows == [r \in DOMAIN data |-> RowOf(headers, data[r], 1, <<>>)]
                res == AssignIds(rows, Contains(headers, IdKey), {}, next, <<>>, FALSE)
            IN  [ok |-> TRUE, rows |-> res.rows,
                 file |-> IF res.needs_writeback THEN WriteCsv(file, res.rows) ELSE file,
                 next |-> res.next, wrote |-> res.needs_writeback]

----------------------------------------------------------------------------
(* Specification SpecCsv: one CSV file, loaded with load_csv_with_ids and   *)
(* written back with write_csv by a caller that holds the rows of its last  *)
(* load.  The file starts as any small table, well-formed or not.           *)

ValueKey == <<"v">>

CsvHeaders == {<<IdKey, ValueKey>>, <<ValueKey, IdKey>>, <<ValueKey>>, <<IdKey, IdKey>>}

CsvIds == {<<>>, <<"1">>, <<"2">>}

CsvValues == {<<>>, <<"a">>, <<COMMA>>, <<"a", QUOTE>>, <<NL, "a">>}

\* The records a file with these headers can hold: ids in the id columns,
\* values in the others.
CsvRecords(headers) ==
    {rec \in [DOMAIN headers -> CsvIds \cup CsvValues] :
        \A i \in DOMAIN headers :
            rec[i] \in (IF headers[i] = IdKey THEN CsvIds ELSE CsvValues)}

\* Texts as an editor or another tool leaves them: no line end at the end,
\* an empty line, a quote inside an unquoted field, a short record, text
\* after a closing quote, an empty file.
RawTexts ==
    {<<>>,
     <<NL>>,
     <<"i", "d", COMMA, "v", NL, "1", COMMA, "a">>,
     <<"i", "d", COMMA, "v", NL, NL, "1", COMMA, "a", NL>>,
     <<"i", "d", COMMA, "v", NL, "1", COMMA, "a", QUOTE, "b", NL>>,
     <<"i", "d", COMMA, "v", NL, "1", NL>>,
     <<"v", NL, QUOTE, "a", QUOTE, "b", NL, QUOTE, QUOTE, NL>>,
     <<"i", "d", COMMA, "v", NL, "1", COMMA, QUOTE, "a", COMMA, NL>>}

CsvTexts ==
    {None} \cup {Some(t) : t \in RawTexts}
    \cup UNION {{Some(WriteRecords(<<h>> \o recs)) : recs \in SeqsUpTo(CsvRecords(h), MaxRows)} :
                 h \in CsvHeaders}

InitCsv ==
    \E text \in CsvTexts :
        /\ persisted = <<>>
        /\ lastOp = [op |-> "new"]
        /\ disk = [p \in AllLibraryPaths |-> DiskLibrary("ok", 0, None)]
        /\ heap = <<>>
        /\ libraries = <<>>
        /\ ReadersOff
        /\ WritebackOff
        /\ KicadOff
        /\ PartsOff
        /\ SchemaOff
        /\ LockOff
        /\ WatcherOff
        /\ AuthOff
        /\ AutoOff
        /\ TrayOff
        /\ csvFile = text
        /\ csvRows = None
        /\ csvLast = [op |-> "none"]

\* let rows = load_csv_with_ids(path)
CsvLoad ==
    /\ LET res == LoadCsvWithIds(csvFile, nextToken)
       IN  /\ csvFile' = res.file
           /\ nextToken' = res.next
           /\ csvRows' = IF res.ok THEN Some(res.rows) ELSE csvRows
           /\ csvLast' = [op |-> "load", ok |-> res.ok, rows |-> res.rows, wrote |-> res.wrote,
                          before |-> csvFile,
                          prev |-> IF csvLast.op = "none"
                                   THEN [op |-> "none"]
                                   ELSE [op |-> csvLast.op, ok |-> csvLast.ok,
                                         rows |-> csvLast.rows]]
    /\ UNCHANGED <<writebackVars, kicadVars, partsVars, schemaVars, lockVars, persistVars, disk, runtimeVars, readerVars, watcherVars, authVars,
                   manifest, files, saved, configDir, lastCall, prevCall, trayVars>>

\* write_csv(path, &rows) with the rows of the last load.
CsvWrite ==
    /\ csvRows # None
    /\ csvLast.op = "load"
    /\ csvFile' = WriteCsv(csvFile, csvRows[1])
    /\ csvLast' = [op |-> "write", ok |-> TRUE, rows |-> csvRows[1], wrote |-> csvRows[1] # <<>>,
                   before |-> csvFile, prev |-> [op |-> "load"]]
    /\ UNCHANGED <<writebackVars, kicadVars, partsVars, schemaVars, lockVars, persistVars, disk, runtimeVars, readerVars, watcherVars, authVars,
                   autoVars, trayVars, csvRows>>

NextCsv == CsvLoad \/ CsvWrite

SpecCsv == InitCsv /\ [][NextCsv]_vars

-----------------------------------------------------------------------------
(* Column maintenance: rename_csv_columns and remove_csv_columns.           *)

\* The rename map, a HashMap collected from the pairs: the last pair of an
\* old key wins.
RenameMapGet(renames, key) ==
    LET hits == {i \in DOMAIN renames : renames[i][1] = key}
    IN  IF hits = {} THEN None
        ELSE Some(renames[CHOOSE i \in hits : \A j \in hits : j <= i][2])

\* The loop over the columns of one row: each is inserted under its new key.
RECURSIVE RenameRow(_, _, _, _)
RenameRow(old_row, renames, i, row) ==
    IF i > Len(old_row) THEN row
    ELSE LET renamed == RenameMapGet(renames, old_row[i].k)
             new_key == IF renamed # None THEN renamed[1] ELSE old_row[i].k
         IN  RenameRow(old_row, renames, i + 1, RowInsert(row, new_key, old_row[i].v))

\* IndexMap::retain
RECURSIVE RetainColumns(_, _)
RetainColumns(row, to_remove) ==
    IF row = <<>> THEN <<>>
    ELSE (IF Head(row).k \in to_remove THEN <<>> ELSE <<Head(row)>>)
         \o RetainColumns(Tail(row), to_remove)

ColumnsOk(file, next) == [ok |-> TRUE, file |-> file, next |-> next]

ColumnsErr(file, next) == [ok |-> FALSE, file |-> file, next |-> next]

\* rename_csv_columns
RenameCsvColumns(file, renames, next) ==
    IF renames = <<>> \/ file = None THEN ColumnsOk(file, next)
    ELSE LET res == LoadCsvWithIds(file, next)
         IN  IF ~res.ok THEN ColumnsErr(res.file, res.next)
             ELSE IF res.rows = <<>> THEN ColumnsOk(res.file, res.next)
             ELSE ColumnsOk(WriteCsv(res.file,
                                     [r \in DOMAIN res.rows |->
                                         RenameRow(res.rows[r], renames, 1, <<>>)]),
                            res.next)

\* remove_csv_columns
RemoveCsvColumns(file, columns, next) ==
    IF columns = <<>> \/ file = None THEN ColumnsOk(file, next)
    ELSE LET res == LoadCsvWithIds(file, next)
         IN  IF ~res.ok THEN ColumnsErr(res.file, res.next)
             ELSE IF res.rows = <<>> THEN ColumnsOk(res.file, res.next)
             ELSE ColumnsOk(WriteCsv(res.file,
                                     [r \in DOMAIN res.rows |->
                                         RetainColumns(res.rows[r], Range(columns))]),
                            res.next)

-----------------------------------------------------------------------------
(* Specification SpecColumns: rename_csv_columns and remove_csv_columns on  *)
(* one CSV file of the columns id, a and b (or a and b alone), with rename  *)
(* lists that name an absent column, swap two columns, or rename a column   *)
(* to the name of another.                                                  *)

ColA == <<"a">>

ColB == <<"b">>

ColC == <<"c">>

ColumnFiles ==
    {None}
    \cup {Some(WriteRecords(<<<<IdKey, ColA, ColB>>>> \o recs)) :
            recs \in SeqsUpTo({<<<<"1">>, <<"x">>, <<"y">>>>, <<<<"2">>, <<"p">>, <<>>>>,
                               <<<<>>, <<"x">>, <<"q">>>>}, MaxRows)}
    \cup {Some(WriteRecords(<<<<ColA, ColB>>>> \o recs)) :
            recs \in SeqsUpTo({<<<<"x">>, <<"y">>>>, <<<<"p">>, <<"q">>>>}, MaxRows)}

RenameLists ==
    {<<>>, <<<<ColA, ColC>>>>, <<<<ColA, ColB>>>>, <<<<ColC, ColA>>>>,
     <<<<ColA, ColB>>, <<ColB, ColA>>>>, <<<<ColC, ColB>>, <<ColB, ColC>>>>}

RemoveLists == {<<>>, <<ColA>>, <<ColC>>, <<ColB, ColC, ColA>>, <<IdKey>>}

InitColumns ==
    \E file \in ColumnFiles :
        /\ persisted = <<>>
        /\ lastOp = [op |-> "new"]
        /\ disk = [p \in AllLibraryPaths |-> DiskLibrary("ok", 0, None)]
        /\ heap = <<>>
        /\ libraries = <<>>
        /\ ReadersOff
        /\ WritebackOff
        /\ KicadOff
        /\ PartsOff
        /\ SchemaOff
        /\ LockOff
        /\ WatcherOff
        /\ AuthOff
        /\ AutoOff
        /\ TrayOff
        /\ csvFile = file
        /\ csvRows = None
        /\ csvLast = [op |-> "none"]

\* rename_csv_columns(path, &renames)
CsvRenameColumns ==
    \E renames \in RenameLists :
        LET res == RenameCsvColumns(csvFile, renames, nextToken)
        IN  /\ nextToken + MaxRows <= MaxTokens
            /\ csvFile' = res.file
            /\ nextToken' = res.next
            /\ csvLast' = [op |-> "rename", ok |-> res.ok, arg |-> renames, before |-> csvFile,
                           loaded |-> LoadCsvWithIds(csvFile, nextToken)]
            /\ UNCHANGED <<writebackVars, kicadVars, partsVars, schemaVars, lockVars, persistVars, disk,
                           runtimeVars, readerVars, watcherVars, authVars, manifest, files,
                           saved, configDir, lastCall, prevCall, trayVars, csvRows>>

\* remove_csv_columns(path, &columns)
CsvRemoveColumns ==
    \E columns \in RemoveLists :
        LET res == RemoveCsvColumns(csvFile, columns, nextToken)
        IN  /\ nextToken + MaxRows <= MaxTokens
            /\ csvFile' = res.file
            /\ nextToken' = res.next
            /\ csvLast' = [op |-> "remove", ok |-> res.ok, arg |-> columns, before |-> csvFile,
                           loaded |-> LoadCsvWithIds(csvFile, nextToken)]
            /\ UNCHANGED <<writebackVars, kicadVars, partsVars, schemaVars, lockVars, persistVars, disk,
                           runtimeVars, readerVars, watcherVars, authVars, manifest, files,
                           saved, configDir, lastCall, prevCall, trayVars, csvRows>>

NextColumns == CsvRenameColumns \/ CsvRemoveColumns

SpecColumns == InitColumns /\ [][NextColumns]_vars

-----------------------------------------------------------------------------
(* Specification SpecDelete: delete_row on one CSV file, with ids that are  *)
(* in the file and ids that are not.                                        *)

\* delete_row: the rows are loaded, the rows of the id dropped, and the rest
\* written; no row of that id is an error.
DeleteRow(file, id, next) ==
    LET res == LoadCsvWithIds(file, next)
        keep(row) == RowGet(row, IdKey) # Some(id)
        rows == SelectSeq(res.rows, keep)
    IN  IF ~res.ok THEN [ok |-> FALSE, file |-> res.file, next |-> res.next]
        ELSE IF Len(rows) = Len(res.rows)
        THEN [ok |-> FALSE, file |-> res.file, next |-> res.next]
        ELSE [ok |-> TRUE, file |-> WriteCsv(res.file, rows), next |-> res.next]

DeleteIds == {<<"1">>, <<"2">>, <<"9">>, Uuid(0)}

\* delete_row(path, id)
CsvDeleteRow ==
    \E id \in DeleteIds :
        LET res == DeleteRow(csvFile, id, nextToken)
        IN  /\ nextToken + MaxRows <= MaxTokens
            /\ csvFile' = res.file
            /\ nextToken' = res.next
            /\ csvLast' = [op |-> "delete", ok |-> res.ok, arg |-> id, before |-> csvFile,
                           loaded |-> LoadCsvWithIds(csvFile, nextToken)]
            /\ UNCHANGED <<writebackVars, kicadVars, partsVars, schemaVars, lockVars, persistVars, disk,
                           runtimeVars, readerVars, watcherVars, authVars, manifest, files,
                           saved, configDir, lastCall, prevCall, trayVars, csvRows>>

NextDelete == CsvDeleteRow

SpecDelete == InitColumns /\ [][NextDelete]_vars

----------------------------------------------------------------------------
(* Schema resolver: data/schema.rs.  A schemas directory gives, for a       *)
(* schema name, the file <name>.yaml: absent, unparsable, or a RawSchema.   *)
(* The fields of a schema (an IndexMap) are a sequence of [k, v] pairs.     *)

Flags == {"exclude_from_bom", "exclude_from_board", "exclude_from_sim"}

BaseName == "_base"

RawSchema(based_on, flags, fields) ==
    [tag |-> "raw", based_on |-> based_on, flags |-> flags, fields |-> fields]

NoFile == [tag |-> "absent"]

BadYaml == [tag |-> "unparsable"]

FileOf(dir, name) == IF name \in DOMAIN dir THEN dir[name] ELSE NoFile

SchemaErr(e) == [outcome |-> "err", err |-> e]

SchemaOk(flags, fields) == [outcome |-> "ok", flags |-> flags, fields |-> fields]

\* Unbounded recursion: the call never returns, the stack overflows.
SchemaOverflow == [outcome |-> "overflow"]

\* A plausible slip: the child's fields first, then the parent's.
RECURSIVE ExtendChildFirst(_, _)
ExtendChildFirst(fields, more) ==
    IF fields = <<>> THEN more
    ELSE ExtendChildFirst(Tail(fields), RowInsert(more, Head(fields).k, Head(fields).v))

\* IndexMap::extend: one insert per pair, in order.
RECURSIVE Extend(_, _)
Extend(fields, more) ==
    IF more = <<>> THEN fields
    ELSE Extend(RowInsert(fields, Head(more).k, Head(more).v), Tail(more))

\* A plausible slip: a flag read as a defaulted boolean, so that false and
\* unset are the same.
UnwrapOrDefaulted(flag, default) == IF flag = Some(TRUE) THEN TRUE ELSE default

\* Option::unwrap_or
UnwrapOr(flag, default) == IF flag = None THEN default ELSE flag[1]

\* The ResolvedSchema made of _base.yaml alone.
ResolvedBase(base) ==
    SchemaOk([f \in Flags |-> UnwrapOr(base.flags[f], FALSE)], base.fields)

\* load_schema.  in_progress holds the names whose resolution has called
\* this one; the code keeps no such set, and a name met again is resolved
\* again, without end.
RECURSIVE LoadSchema(_, _, _)
LoadSchema(dir, schema_name, in_progress) ==
    LET base == FileOf(dir, BaseName)
        file == FileOf(dir, schema_name)
    IN  IF base.tag = "unparsable" THEN SchemaErr("Yaml")
        ELSE IF schema_name = BaseName
        THEN IF base.tag = "absent" THEN SchemaErr("MissingBase") ELSE ResolvedBase(base)
        ELSE IF file.tag = "absent" THEN SchemaErr("MissingParent")
        ELSE IF file.tag = "unparsable" THEN SchemaErr("Yaml")
        ELSE IF file.based_on = None
        THEN SchemaOk([f \in Flags |-> UnwrapOr(file.flags[f], FALSE)],
                      Extend(<<>>, file.fields))
        ELSE
          LET parent_name == file.based_on[1]
              parent == IF parent_name = BaseName
                        THEN IF base.tag = "absent" THEN SchemaErr("MissingBase")
                             ELSE ResolvedBase(base)
                        ELSE IF parent_name \in in_progress \cup {schema_name}
                        THEN SchemaOverflow
                        ELSE LoadSchema(dir, parent_name, in_progress \cup {schema_name})
          IN  IF parent.outcome # "ok" THEN parent
              ELSE SchemaOk([f \in Flags |-> UnwrapOr(file.flags[f], parent.flags[f])],
                            Extend(Extend(<<>>, parent.fields), file.fields))

----------------------------------------------------------------------------
(* Specification SpecSchema: load_schema is called on the names of a        *)
(* schemas directory holding _base.yaml, a.yaml and b.yaml in every small   *)
(* combination of parents, flags and fields.                                *)

FieldDef(schema, key) == [display_name |-> <<schema, key>>]

Field(schema, key) == [k |-> key, v |-> FieldDef(schema, key)]

FlagChoices ==
    {[f \in Flags |-> None],
     [exclude_from_bom |-> Some(TRUE), exclude_from_board |-> None,
      exclude_from_sim |-> Some(TRUE)],
     [exclude_from_bom |-> Some(FALSE), exclude_from_board |-> Some(TRUE),
      exclude_from_sim |-> None]}

BaseFiles ==
    {NoFile, BadYaml}
    \cup {RawSchema(p, fl, fs) :
            p \in {None, Some("a")}, fl \in FlagChoices,
            fs \in {<<Field(BaseName, "k1")>>,
                    <<Field(BaseName, "k1"), Field(BaseName, "k2")>>}}

AFiles ==
    {NoFile}
    \cup {RawSchema(p, fl, fs) :
            p \in {None, Some(BaseName), Some("a"), Some("b")}, fl \in FlagChoices,
            fs \in {<<>>, <<Field("a", "k3"), Field("a", "k1")>>,
                    <<Field("a", "k2"), Field("a", "k3")>>}}

BFiles ==
    {NoFile}
    \cup {RawSchema(p, fl, fs) :
            p \in {None, Some(BaseName), Some("a")}, fl \in FlagChoices,
            fs \in {<<Field("b", "k4")>>, <<Field("b", "k3"), Field("b", "k2")>>}}

SchemaNames == {BaseName, "a", "b"}

InitSchema ==
    \E fb \in BaseFiles, fa \in AFiles, fc \in BFiles :
        /\ persisted = <<>>
        /\ lastOp = [op |-> "new"]
        /\ disk = [p \in AllLibraryPaths |-> DiskLibrary("ok", 0, None)]
        /\ heap = <<>>
        /\ libraries = <<>>
        /\ ReadersOff
        /\ WritebackOff
        /\ KicadOff
        /\ PartsOff
        /\ CsvOff
        /\ LockOff
        /\ WatcherOff
        /\ AuthOff
        /\ AutoOff
        /\ TrayOff
        /\ schemas = [n \in SchemaNames |-> IF n = BaseName THEN fb ELSE IF n = "a" THEN fa ELSE fc]
        /\ schemaLast = [op |-> "none"]

\* load_schema(schemas_dir, schema_name)
LoadSchemaCall ==
    \E name \in SchemaNames :
        /\ schemaLast' = [op |-> "load", name |-> name, res |-> LoadSchema(schemas, name, {})]
        /\ UNCHANGED <<writebackVars, kicadVars, partsVars, csvVars, lockVars, persistVars, disk, runtimeVars, readerVars,
                       watcherVars, authVars, autoVars, trayVars, schemas>>

NextSchema == LoadSchemaCall

SpecSchema == InitSchema /\ [][NextSchema]_vars

----------------------------------------------------------------------------
(* Lock watcher: discovery/lock_watcher.rs *)

ProjectOpened(dir) == [tag |-> "ProjectOpened", dir |-> dir]

ProjectClosed(dir) == [tag |-> "ProjectClosed", dir |-> dir]

LockPath(dir, file) == [dir |-> dir, file |-> file]

\* read_dir(&dir) ... any(|e| e.path().extension() == Some("lck"))
HasRemainingLocks(fs, dir) ==
    \E f \in fs : f.dir = dir /\ Extension(f.file) = Some("lck")

\* A plausible slip: every deleted lock file closes the project.
LockEventsNoRemainingCheck(event, fs) ==
    IF event.kind # "Any" THEN <<>>
    ELSE IF ExtOrEmpty(event.file) # "lck" THEN <<>>
    ELSE IF LockPath(event.dir, event.file) \in fs THEN <<ProjectOpened(event.dir)>>
    ELSE <<ProjectClosed(event.dir)>>

\* The body of the loop over the events of a batch: what is sent on
\* event_tx for one debounced event, given the files that exist.
LockEvents(event, fs) ==
    IF event.kind # "Any" THEN <<>>
    ELSE IF ExtOrEmpty(event.file) # "lck" THEN <<>>
    ELSE IF LockPath(event.dir, event.file) \in fs THEN <<ProjectOpened(event.dir)>>
    ELSE IF HasRemainingLocks(fs, event.dir) THEN <<>>
    ELSE <<ProjectClosed(event.dir)>>

\* start(): the directories added before start that exist are watched,
\* without their subdirectories.
RECURSIVE WatchedDirs(_, _)
WatchedDirs(dirs, existing) ==
    IF dirs = <<>> THEN <<>>
    ELSE (IF Head(dirs) \in existing THEN <<Head(dirs)>> ELSE <<>>)
         \o WatchedDirs(Tail(dirs), existing)

----------------------------------------------------------------------------
(* Specification SpecLock: the lock watcher was started on the project      *)
(* directories; KiCad creates and deletes files in them; the debouncer      *)
(* keeps one pending change per path during its 1 s window and then         *)
(* reports it; the thread handles the reports one event at a time.          *)

LockFileNames == {<<"x", "lck">>, <<"y", "lck">>, <<"n", "txt">>}

LockPaths ==
    {LockPath(<<"p1">>, f) : f \in LockFileNames} \cup {LockPath(<<"p2">>, <<"x", "lck">>)}

FsCount0 == [creates |-> 0, deletes |-> 0, empties |-> 0]

InitLock ==
    \E added \in {<<<<"p1">>>>, <<<<"p1">>, <<"p2">>>>, <<<<"p2">>, <<"p1">>, <<"p2">>>>},
       existing \in {{<<"p1">>}, {<<"p1">>, <<"p2">>}} :
        /\ persisted = <<>>
        /\ lastOp = [op |-> "new"]
        /\ disk = [p \in AllLibraryPaths |-> DiskLibrary("ok", 0, None)]
        /\ heap = <<>>
        /\ libraries = <<>>
        /\ ReadersOff
        /\ WritebackOff
        /\ KicadOff
        /\ PartsOff
        /\ SchemaOff
        /\ CsvOff
        /\ WatcherOff
        /\ AuthOff
        /\ AutoOff
        /\ TrayOff
        /\ watched_dirs = WatchedDirs(added, existing)
        /\ lockFiles = {}
        /\ debounce = {}
        /\ lockRx = <<>>
        /\ event_tx = <<>>
        /\ fsCount = [dir \in ProjectDirs |-> FsCount0]

FsOps == fsCount[<<"p1">>].creates + fsCount[<<"p1">>].deletes
         + fsCount[<<"p2">>].creates + fsCount[<<"p2">>].deletes

\* The debouncer notes a change of a path in a watched directory.
Debounced(path) ==
    IF Contains(watched_dirs, path.dir) THEN debounce \cup {path} ELSE debounce

IsLck(path) == Extension(path.file) = Some("lck")

\* A file is created in a project directory.
LockCreate ==
    \E path \in LockPaths \ lockFiles :
        /\ FsOps < MaxFsOps
        /\ lockFiles' = lockFiles \cup {path}
        /\ debounce' = Debounced(path)
        /\ fsCount' = IF IsLck(path)
                      THEN [fsCount EXCEPT ![path.dir].creates = @ + 1]
                      ELSE fsCount
        /\ UNCHANGED <<writebackVars, kicadVars, partsVars, schemaVars, csvVars, persistVars, disk, runtimeVars, readerVars, watcherVars, authVars,
                       autoVars, trayVars, watched_dirs, lockRx, event_tx>>

\* A file is deleted.
LockDelete ==
    \E path \in lockFiles :
        /\ FsOps < MaxFsOps
        /\ lockFiles' = lockFiles \ {path}
        /\ debounce' = Debounced(path)
        /\ fsCount' = IF IsLck(path)
                      THEN [fsCount EXCEPT
                              ![path.dir].deletes = @ + 1,
                              ![path.dir].empties =
                                  IF HasRemainingLocks(lockFiles', path.dir) THEN @ ELSE @ + 1]
                      ELSE fsCount
        /\ UNCHANGED <<writebackVars, kicadVars, partsVars, schemaVars, csvVars, persistVars, disk, runtimeVars, readerVars, watcherVars, authVars,
                       autoVars, trayVars, watched_dirs, lockRx, event_tx>>

\* The window of some pending paths has passed: they are reported in one
\* batch, as Any.
DebounceFlush ==
    \E batch \in SeqsUpTo(debounce, MaxBatch) :
        /\ batch # <<>>
        /\ \A i, j \in DOMAIN batch : i # j => batch[i] # batch[j]
        /\ Len(lockRx) < MaxChannel
        /\ lockRx' = Append(lockRx,
                            EventsMsg([i \in DOMAIN batch |->
                                         DebouncedEvent(batch[i].dir, batch[i].file, "Any")]))
        /\ debounce' = debounce \ Range(batch)
        /\ UNCHANGED <<writebackVars, kicadVars, partsVars, schemaVars, csvVars, persistVars, disk, runtimeVars, readerVars, watcherVars, authVars,
                       autoVars, trayVars, watched_dirs, lockFiles, event_tx, fsCount>>

\* A path that keeps changing past the window is reported as AnyContinuous
\* and stays pending.
DebounceContinuous ==
    \E path \in debounce :
        /\ lockRx = <<>>
        /\ lockRx' = <<EventsMsg(<<DebouncedEvent(path.dir, path.file, "AnyContinuous")>>)>>
        /\ UNCHANGED <<writebackVars, kicadVars, partsVars, schemaVars, csvVars, persistVars, disk, runtimeVars, readerVars, watcherVars, authVars,
                       autoVars, trayVars, watched_dirs, lockFiles, debounce, event_tx, fsCount>>

\* The debouncer reports a watch error.
LockFsError ==
    /\ watched_dirs # <<>>
    /\ lockRx = <<>>
    /\ lockRx' = <<ErrorMsg>>
    /\ UNCHANGED <<writebackVars, kicadVars, partsVars, schemaVars, csvVars, persistVars, disk, runtimeVars, readerVars, watcherVars, authVars,
                   autoVars, trayVars, watched_dirs, lockFiles, debounce, event_tx, fsCount>>

\* Ok(Ok(events)): one iteration of the loop over the events of the batch.
LockThreadEvent ==
    /\ lockRx # <<>>
    /\ Head(lockRx).tag = "events"
    /\ LET event == Head(Head(lockRx).events)
           rest == Tail(Head(lockRx).events)
       IN  /\ event_tx' = event_tx \o LockEvents(event, lockFiles)
           /\ lockRx' = IF rest = <<>> THEN Tail(lockRx)
                        ELSE <<EventsMsg(rest)>> \o Tail(lockRx)
    /\ UNCHANGED <<writebackVars, kicadVars, partsVars, schemaVars, csvVars, persistVars, disk, runtimeVars, readerVars, watcherVars, authVars,
                   autoVars, trayVars, watched_dirs, lockFiles, debounce, fsCount>>

\* Ok(Err(e)): the watch error is logged.
LockThreadError ==
    /\ lockRx # <<>>
    /\ Head(lockRx).tag = "error"
    /\ lockRx' = Tail(lockRx)
    /\ UNCHANGED <<writebackVars, kicadVars, partsVars, schemaVars, csvVars, persistVars, disk, runtimeVars, readerVars, watcherVars, authVars,
                   autoVars, trayVars, watched_dirs, lockFiles, debounce, event_tx, fsCount>>

NextLock ==
    \/ LockCreate \/ LockDelete \/ DebounceFlush \/ DebounceContinuous \/ LockFsError
    \/ LockThreadEvent \/ LockThreadError

SpecLock == InitLock /\ [][NextLock]_vars

----------------------------------------------------------------------------
(* Discovery engine: discovery/mod.rs, DiscoveryEngine::run.                *)

\* try_register: the outcome of try_auto_register is logged, the engine's
\* registries keep what the call did to them.  notified: the on_discovery
\* callback was called.
TryRegister(dir, st, d, mf, cfgDir, port) ==
    LET res == TryAutoRegister(dir, st, d, mf, cfgDir, port)
    IN  [st |-> res.st, notified |-> res.ok /\ res.n > 0]

\* for dir in &dirs { self.try_register(dir); }
RECURSIVE RegisterEach(_, _, _, _, _, _)
RegisterEach(dirs, st, d, mf, cfgDir, port) ==
    IF dirs = <<>> THEN st
    ELSE RegisterEach(Tail(dirs), TryRegister(Head(dirs), st, d, mf, cfgDir, port).st,
                      d, mf, cfgDir, port)

\* What the calls of try_register in one step did, call by call: the
\* directory, the registry before and after, and whether on_discovery was
\* called (it is passed &self.persisted, the registry after).
RECURSIVE RegisterLog(_, _, _, _, _, _)
RegisterLog(dirs, st, d, mf, cfgDir, port) ==
    IF dirs = <<>> THEN <<>>
    ELSE LET res == TryRegister(Head(dirs), st, d, mf, cfgDir, port)
         IN  <<[dir |-> Head(dirs), before |-> st.persisted, after |-> res.st.persisted,
                notified |-> res.notified,
                passed |-> IF res.notified THEN Some(res.st.persisted) ELSE None]>>
             \o RegisterLog(Tail(dirs), res.st, d, mf, cfgDir, port)

\* The end of a scan: the active set is replaced when it differs from the
\* scan's result, and then on_active_changed is called.
ScanActive(active, dirs) ==
    [active_dirs |-> IF dirs # active THEN dirs ELSE active, changed |-> dirs # active]

\* A plausible slip: the directory is pushed without the contains test.
OpenedActiveAlwaysPush(active, dir) ==
    [active_dirs |-> Append(active, dir), changed |-> TRUE]

\* LockEvent::ProjectOpened(dir), after try_register.
OpenedActive(active, dir) ==
    [active_dirs |-> IF Contains(active, dir) THEN active ELSE Append(active, dir),
     changed |-> ~Contains(active, dir)]

\* A plausible slip: a closed project is also unregistered.
ClosedEngineUnregisters(projects, active, dir) ==
    LET keep(x) == x # dir
    IN  [persisted |-> RemoveByPath(projects, dir),
         active_dirs |-> SelectSeq(active, keep),
         changed |-> Contains(active, dir)]

\* LockEvent::ProjectClosed(dir): the directory leaves the active set, the
\* registries are not touched.
ClosedEngine(projects, active, dir) ==
    LET keep(x) == x # dir
    IN  [persisted |-> projects,
         active_dirs |-> SelectSeq(active, keep),
         changed |-> Contains(active, dir)]

----------------------------------------------------------------------------
(* Specification SpecEngine: the engine's loop.  The process scan and the   *)
(* lock events are the environment's: every scan result and every event    *)
(* may come at any time.                                                    *)

\* cb(&active_dirs): what on_active_changed is passed, when it is called.
Published(res) == IF res.changed THEN Some(res.active_dirs) ELSE None

\* scan_kicad_processes returns a sorted list without duplicates.
ScanResults == {<<>>, <<<<"p1">>>>, <<<<"p2">>>>, <<<<"p1">>, <<"p2">>>>}

EngineManifests ==
    {[dir \in ProjectDirs |-> IF dir = <<"p1">> THEN m1 ELSE m2] :
        m1 \in {ProjectConfig("ok", <<LibraryRef("A", <<"x">>)>>),
                ProjectConfig("ok", <<LibraryRef("A", <<"x">>), LibraryRef("B", <<"y">>)>>)},
        m2 \in {ProjectConfig("ok", <<LibraryRef("B", <<"..", "p1", "x">>)>>),
                ProjectConfig("ok", <<LibraryRef("B", <<"x">>)>>),
                ProjectConfig("missing", <<>>)}}

InitEngine ==
    \E mf \in EngineManifests, sy \in {"ok", "bad_csv"} :
        /\ persisted = <<>>
        /\ lastOp = [op |-> "new"]
        /\ disk = [p \in AllLibraryPaths |->
                    DiskLibrary(IF p = <<"p1", "y">> THEN sy ELSE "ok", 0, None)]
        /\ heap = <<>>
        /\ libraries = <<>>
        /\ ReadersOff
        /\ WritebackOff
        /\ KicadOff
        /\ PartsOff
        /\ SchemaOff
        /\ CsvOff
        /\ LockOff
        /\ WatcherOff
        /\ AuthOff
        /\ manifest = mf
        /\ files = <<>>
        /\ saved = None
        /\ nextToken = 0
        /\ configDir = TRUE
        /\ lastCall = None
        /\ prevCall = None
        /\ appPersisted = <<>>
        /\ enginePc = "start"
        /\ removed = {}
        /\ discovered = {}
        /\ active_dirs = <<>>

EngineState == AutoState(persisted, Runtime(heap, libraries), files, saved, nextToken)

\* What a step of the engine does to the registries and the files.
EngineStore(st) ==
    /\ persisted' = st.persisted
    /\ heap' = st.rt.heap
    /\ libraries' = st.rt.libraries
    /\ files' = st.files
    /\ saved' = st.saved
    /\ nextToken' = st.nextToken

\* A process scan: every directory found is tried, then the active set is
\* brought up to date.
EngineScan(dirs, op) ==
    /\ nextToken < MaxTokens
    /\ EngineStore(RegisterEach(dirs, EngineState, disk, manifest, configDir, Port))
    /\ active_dirs' = ScanActive(active_dirs, dirs).active_dirs
    /\ enginePc' = "idle"
    /\ lastOp' = [op |-> op, dirs |-> dirs, before |-> active_dirs,
                  changed |-> ScanActive(active_dirs, dirs).changed,
                  published |-> Published(ScanActive(active_dirs, dirs)),
                  attempts |-> RegisterLog(dirs, EngineState, disk, manifest, configDir, Port)]
    /\ UNCHANGED <<writebackVars, kicadVars, partsVars, schemaVars, csvVars, lockVars, disk, readerVars, watcherVars, authVars, manifest, configDir,
                   lastCall, prevCall, appPersisted, removed, discovered>>

\* The initial process scan.
EngineInitialScan ==
    \E dirs \in ScanResults :
        /\ enginePc = "start"
        /\ EngineScan(dirs, "initial")

\* A tick of the 2 s interval.
EngineTick ==
    \E dirs \in ScanResults :
        /\ enginePc = "idle"
        /\ EngineScan(dirs, "tick")

EngineProjectOpened ==
    \E dir \in ProjectDirs :
        /\ enginePc = "idle"
        /\ nextToken < MaxTokens
        /\ EngineStore(TryRegister(dir, EngineState, disk, manifest, configDir, Port).st)
        /\ active_dirs' = OpenedActive(active_dirs, dir).active_dirs
        /\ lastOp' = [op |-> "opened", dir |-> dir, before |-> active_dirs,
                      changed |-> OpenedActive(active_dirs, dir).changed,
                      published |-> Published(OpenedActive(active_dirs, dir)),
                      attempts |-> RegisterLog(<<dir>>, EngineState, disk, manifest,
                                               configDir, Port)]
        /\ UNCHANGED <<writebackVars, kicadVars, partsVars, schemaVars, csvVars, lockVars, disk, readerVars, watcherVars, authVars, manifest, configDir,
                       lastCall, prevCall, appPersisted, enginePc, removed, discovered>>

EngineProjectClosed ==
    \E dir \in ProjectDirs :
        /\ enginePc = "idle"
        /\ LET res == ClosedEngine(persisted, active_dirs, dir)
           IN  /\ persisted' = res.persisted
               /\ active_dirs' = res.active_dirs
               /\ lastOp' = [op |-> "closed", dir |-> dir, before |-> active_dirs,
                             changed |-> res.changed, published |-> Published(res)]
        /\ UNCHANGED <<writebackVars, kicadVars, partsVars, schemaVars, csvVars, lockVars, disk, runtimeVars, readerVars, watcherVars, authVars, autoVars,
                       appPersisted, enginePc, removed, discovered>>

NextEngine == EngineInitialScan \/ EngineTick \/ EngineProjectOpened \/ EngineProjectClosed

SpecEngine == InitEngine /\ [][NextEngine]_vars

----------------------------------------------------------------------------
(* Tray application: kicodex-tray/src/lib.rs, commands.rs.  The discovery   *)
(* engine is constructed with its own PersistedRegistry (lib.rs:209-214,    *)
(* discovery/mod.rs:25), AppState holds a clone behind a mutex              *)
(* (lib.rs:198).                                                            *)

\* The files remove_project deletes for one entry: the descriptor in the
\* library directory and the one in the project directory.
DescriptorKeys(entry) ==
    {<<entry.library_path, entry.name>>}
    \cup (IF entry.project_path = None THEN {} ELSE {<<entry.project_path[1], entry.name>>})

\* remove_project: the entries of the project are removed from the runtime
\* registry, their descriptor files deleted, the entries removed from the
\* registry behind the mutex and that registry saved.
RemoveProject(projects, libs, fs, project_path) ==
    LET matching == {e \in Range(projects) : e.project_path = Some(project_path)}
        tokens == {e.token : e \in matching}
        gone == UNION {DescriptorKeys(e) : e \in matching}
        left == RemoveByPath(projects, project_path)
    IN  [persisted |-> left,
         libraries |-> [t \in DOMAIN libs \ tokens |-> libs[t]],
         files |-> [k \in DOMAIN fs \ gone |-> fs[k]],
         saved |-> Some(left),
         tokens |-> tokens,
         count |-> Cardinality(matching)]

----------------------------------------------------------------------------
(* Specification SpecTray: the discovery engine registers projects while    *)
(* the user removes projects with the remove_project command.  The engine   *)
(* calls try_auto_register on its own registry (discovery/mod.rs:161) and   *)
(* then, when something was registered, the on_discovery callback, which    *)
(* takes the mutex (lib.rs:221-223); remove_project runs on another thread  *)
(* under the mutex.                                                         *)

TrayManifests ==
    {[dir \in ProjectDirs |->
        IF dir = <<"p1">> THEN ProjectConfig("ok", m1) ELSE m2] :
        m1 \in {<<LibraryRef("A", <<"x">>)>>,
                <<LibraryRef("A", <<"x">>), LibraryRef("B", <<"y">>)>>},
        m2 \in {ProjectConfig("ok", <<LibraryRef("B", <<"x">>)>>),
                ProjectConfig("missing", <<>>)}}

InitTray ==
    \E mf \in TrayManifests, sy \in {"ok", "bad_csv"} :
        /\ persisted = <<>>
        /\ lastOp = [op |-> "new"]
        /\ disk = [p \in AllLibraryPaths |->
                    DiskLibrary(IF p = <<"p1", "y">> THEN sy ELSE "ok", 0, None)]
        /\ heap = <<>>
        /\ libraries = <<>>
        /\ ReadersOff
        /\ WritebackOff
        /\ KicadOff
        /\ PartsOff
        /\ SchemaOff
        /\ CsvOff
        /\ LockOff
        /\ WatcherOff
        /\ AuthOff
        /\ manifest = mf
        /\ files = <<>>
        /\ saved = None
        /\ nextToken = 0
        /\ configDir = TRUE
        /\ lastCall = None
        /\ prevCall = None
        /\ TrayOff

\* DiscoveryEngine::try_register up to the callback.
EngineTryRegister ==
    \E dir \in ProjectDirs :
        /\ enginePc = "idle"
        /\ nextToken < MaxTokens
        /\ LET res == TryAutoRegister(dir, AutoState(persisted, Runtime(heap, libraries),
                                                     files, saved, nextToken),
                                      disk, manifest, configDir, Port)
           IN  /\ persisted' = res.st.persisted
               /\ heap' = res.st.rt.heap
               /\ libraries' = res.st.rt.libraries
               /\ files' = res.st.files
               /\ saved' = res.st.saved
               /\ nextToken' = res.st.nextToken
               /\ lastCall' = Some([dir |-> dir, ok |-> res.ok, n |-> res.n,
                                    upserted |-> res.upserted, writes |-> res.writes,
                                    before |-> AutoSnapshot(AutoState(persisted,
                                                   Runtime(heap, libraries), files, saved,
                                                   nextToken)),
                                    after |-> AutoSnapshot(res.st)])
               /\ prevCall' = lastCall
               /\ enginePc' = IF res.ok /\ res.n > 0 THEN "callback" ELSE "idle"
               /\ discovered' = IF res.ok /\ res.n > 0
                                THEN discovered \cup (Range(res.upserted) \cap Range(res.st.persisted))
                                ELSE discovered
        /\ UNCHANGED <<writebackVars, kicadVars, partsVars, schemaVars, csvVars, lockVars, lastOp, disk, readerVars, watcherVars, authVars, manifest, configDir,
                       appPersisted, removed, active_dirs>>

\* The on_discovery callback: *state.persisted.lock() = updated.clone().
EngineCallback ==
    /\ enginePc = "callback"
    /\ appPersisted' = persisted
    /\ enginePc' = "idle"
    /\ UNCHANGED <<writebackVars, kicadVars, partsVars, schemaVars, csvVars, lockVars, persistVars, disk, runtimeVars, readerVars, watcherVars, authVars, autoVars,
                   removed, discovered, active_dirs>>

\* The remove_project command.
DoRemoveProject ==
    \E dir \in ProjectDirs :
        /\ configDir
        /\ LET res == RemoveProject(appPersisted, libraries, files, dir)
           IN  /\ appPersisted' = res.persisted
               /\ libraries' = res.libraries
               /\ files' = res.files
               /\ saved' = res.saved
               /\ removed' = removed \cup res.tokens
        /\ UNCHANGED <<writebackVars, kicadVars, partsVars, schemaVars, csvVars, lockVars, persistVars, disk, heap, readerVars, watcherVars, authVars, manifest,
                       nextToken, configDir, lastCall, prevCall, enginePc, discovered,
                       active_dirs>>

NextTray == EngineTryRegister \/ EngineCallback \/ DoRemoveProject

SpecTray == InitTray /\ [][NextTray]_vars

-----------------------------------------------------------------------------
(* Specification SpecRemove: the content watcher, started on a registry of  *)
(* two projects, calls reload for the entries of its watch_entries while    *)
(* the remove_project command removes projects and the library directories  *)
(* are edited.  reload is two steps, as in SpecRegistry.                    *)

InitRemove ==
    \E sx \in {"ok", "bad_csv"} :
        /\ persisted = <<ProjectEntry(TokenA, Some(<<"p1">>), <<"p1", "x">>, "A", None),
                         ProjectEntry(TokenB, Some(<<"p2">>), <<"p1", "y">>, "B", None)>>
        /\ lastOp = [op |-> "new"]
        /\ disk = [q \in AllLibraryPaths |->
                    DiskLibrary(IF q = <<"p1", "x">> THEN sx ELSE "ok", 0, None)]
        /\ heap = FromPersisted(persisted, disk).heap
        /\ libraries = FromPersisted(persisted, disk).libraries
        /\ ReadersOff
        /\ WritebackOff
        /\ KicadOff
        /\ PartsOff
        /\ SchemaOff
        /\ CsvOff
        /\ LockOff
        /\ AuthOff
        /\ AutoOff
        /\ TrayOff
        /\ entries = WatchEntries(persisted, disk)
        /\ watcher = "running"
        /\ channel = <<>>
        /\ lastEv = None
        /\ existed = {e.library_path : e \in Range(persisted)}

\* An editor changes a library directory the watcher watches.
RemoveDiskEdit ==
    \E q \in LibraryPaths, st \in {"ok", "bad_csv"} :
        /\ disk[q].gen < MaxGen
        /\ disk' = [disk EXCEPT ![q] = DiskLibrary(st, disk[q].gen + 1, disk[q].description)]
        /\ UNCHANGED <<writebackVars, kicadVars, partsVars, schemaVars, csvVars, lockVars, persistVars,
                       runtimeVars, readerVars, watcherVars, authVars, autoVars, trayVars>>

\* remove_project: registry.remove(&entry.token) for the entries of the
\* project, then persisted.remove_by_path.
RemoveProjectCall ==
    \E dir \in ProjectDirs :
        LET res == RemoveProject(persisted, libraries, files, dir)
        IN  /\ res.count > 0
            /\ persisted' = res.persisted
            /\ libraries' = res.libraries
            /\ removed' = removed \cup res.tokens
            /\ lastOp' = [op |-> "remove_project", dir |-> dir]
            /\ UNCHANGED <<writebackVars, kicadVars, partsVars, schemaVars, csvVars, lockVars, disk, heap,
                           readerVars, watcherVars, authVars, autoVars, appPersisted,
                           enginePc, discovered, active_dirs>>

\* The watcher thread calls reload(token, library_path) for an entry of
\* watch_entries; first step: load_library(library_path)?.
WatcherReloadLoad ==
    \E i \in DOMAIN entries :
        /\ rl.pc = "idle"
        /\ Len(heap) < MaxHeap
        /\ LET t == entries[i].token
               res == LoadLibrary(disk, entries[i].library_path)
           IN  rl' = IF res.ok
                     THEN [pc |-> "insert", token |-> t, library |-> res.lib,
                           absent |-> t \notin DOMAIN libraries,
                           removed |-> t \in removed, last |-> rl.last]
                     ELSE [pc |-> "idle",
                           last |-> Some([token |-> t, ok |-> FALSE,
                                          absent |-> t \notin DOMAIN libraries,
                                          removed |-> t \in removed])]
        /\ UNCHANGED <<writebackVars, kicadVars, partsVars, schemaVars, csvVars, lockVars, persistVars, disk,
                       runtimeVars, handle, got, watcherVars, authVars, autoVars, trayVars>>

\* reload, second step: self.libraries.insert(token, Arc::new(library)).
WatcherReloadInsert ==
    /\ rl.pc = "insert"
    /\ LET rt == RegistryInsert(Runtime(heap, libraries), rl.token, rl.library)
       IN  /\ heap' = rt.heap
           /\ libraries' = rt.libraries
    /\ rl' = [pc |-> "idle",
              last |-> Some([token |-> rl.token, ok |-> TRUE, absent |-> rl.absent,
                             removed |-> rl.removed])]
    /\ UNCHANGED <<writebackVars, kicadVars, partsVars, schemaVars, csvVars, lockVars, persistVars, disk,
                   handle, got, watcherVars, authVars, autoVars, trayVars>>

NextRemove == RemoveDiskEdit \/ RemoveProjectCall \/ WatcherReloadLoad \/ WatcherReloadInsert

SpecRemove == InitRemove /\ [][NextRemove]_vars

-----------------------------------------------------------------------------
(* Specification SpecWriteback: the content watcher on one library of       *)
(* NTables tables.  load_library reads library.yaml and then, table by      *)
(* table, the schema and the CSV file; load_csv_with_ids rewrites a CSV     *)
(* file that has a row without a valid id (through a temp file renamed into *)
(* place), after which the file has ids.  The debouncer reports each path   *)
(* changed once per batch; the thread calls reload for every event of a     *)
(* batch whose extension is csv, yaml or yml.  An external edit comes when  *)
(* the watcher is quiet.                                                    *)

ManifestFile == <<"library", "yaml">>

TableFile(i) == <<<<"t", i>>, "csv">>

\* write_csv's temp file: .<file name>.tmp in the same directory.
TempFile(i) == <<"", <<"t", i>>, "csv", "tmp">>

\* The loop of load_library over the tables: a file that needs ids is
\* rewritten, which changes the temp file and the file itself.
RECURSIVE LoadTables(_, _, _)
LoadTables(i, needs, changed) ==
    IF i > Len(needs) THEN [ok |-> TRUE, needsIds |-> needs, changed |-> changed]
    ELSE IF needs[i]
         THEN LoadTables(i + 1, [needs EXCEPT ![i] = FALSE],
                         changed \cup {TempFile(i), TableFile(i)})
         ELSE LoadTables(i + 1, needs, changed)

\* load_library as the watcher's reload calls it: an unreadable manifest is
\* an error before any table is read.
LoadLibraryFiles(yaml, needs) ==
    IF yaml # "ok" THEN [ok |-> FALSE, needsIds |-> needs, changed |-> {}]
    ELSE LoadTables(1, needs, {})

InitWriteback ==
    \E yaml \in {"ok", "bad_manifest"}, needs \in [1..NTables -> BOOLEAN] :
        /\ yaml = "ok" => \A i \in 1..NTables : ~needs[i]
        /\ persisted = <<ProjectEntry(TokenA, Some(<<"p1">>), <<"p1", "x">>, "A", None)>>
        /\ lastOp = [op |-> "new"]
        /\ disk = [q \in AllLibraryPaths |-> DiskLibrary("ok", 0, None)]
        /\ heap = <<>>
        /\ libraries = <<>>
        /\ ReadersOff
        /\ KicadOff
        /\ PartsOff
        /\ SchemaOff
        /\ CsvOff
        /\ LockOff
        /\ WatcherOff
        /\ AuthOff
        /\ AutoOff
        /\ TrayOff
        /\ libYaml = yaml
        /\ needsIds = needs
        /\ fsPending = {}
        /\ fsBatches = <<>>
        /\ wbLog = [edits |-> 0, reloads |-> 0, rewrites |-> 0, late |-> FALSE]

\* One external edit: library.yaml is repaired or broken, or rows are
\* written to the CSV file of a table, with ids or without.
ExternalEdit ==
    /\ fsPending = {}
    /\ fsBatches = <<>>
    /\ wbLog.edits < MaxEdits
    /\ \/ \E yaml \in {"ok", "bad_manifest"} :
            /\ libYaml' = yaml
            /\ needsIds' = needsIds
            /\ fsPending' = {ManifestFile}
       \/ \E i \in DOMAIN needsIds, b \in BOOLEAN :
            /\ libYaml' = libYaml
            /\ needsIds' = [needsIds EXCEPT ![i] = b]
            /\ fsPending' = {TableFile(i)}
    /\ fsBatches' = fsBatches
    /\ wbLog' = [edits |-> wbLog.edits + 1, reloads |-> 0, rewrites |-> 0, late |-> FALSE]
    /\ UNCHANGED <<kicadVars, partsVars, schemaVars, csvVars, lockVars, persistVars, disk,
                   runtimeVars, readerVars, watcherVars, authVars, autoVars, trayVars>>

\* The debouncer's window ends: the paths changed are sent as one batch.
DebouncerSend ==
    /\ fsPending # {}
    /\ fsBatches' = Append(fsBatches, fsPending)
    /\ fsPending' = {}
    /\ UNCHANGED <<libYaml, needsIds, wbLog, kicadVars, partsVars, schemaVars, csvVars,
                   lockVars, persistVars, disk, runtimeVars, readerVars, watcherVars,
                   authVars, autoVars, trayVars>>

\* One iteration of the thread's loop over the events of a batch.
ReloadOnEvent ==
    /\ fsBatches # <<>>
    /\ \E file \in Head(fsBatches) :
        LET rest == Head(fsBatches) \ {file}
            wanted == ExtOrEmpty(file) \in {"csv", "yaml", "yml"}
            res == LoadLibraryFiles(libYaml, needsIds)
            rewritten == {i \in DOMAIN needsIds : needsIds[i] /\ ~res.needsIds[i]}
        IN  /\ fsBatches' = IF rest = {} THEN Tail(fsBatches) ELSE <<rest>> \o Tail(fsBatches)
            /\ needsIds' = IF wanted THEN res.needsIds ELSE needsIds
            /\ fsPending' = IF wanted THEN fsPending \cup res.changed ELSE fsPending
            /\ wbLog' = IF wanted
                        THEN [edits |-> wbLog.edits,
                              reloads |-> wbLog.reloads + 1,
                              rewrites |-> wbLog.rewrites + Cardinality(rewritten),
                              late |-> wbLog.late \/ (wbLog.reloads > 0 /\ rewritten # {})]
                        ELSE wbLog
    /\ UNCHANGED <<libYaml, kicadVars, partsVars, schemaVars, csvVars, lockVars, persistVars,
                   disk, runtimeVars, readerVars, watcherVars, authVars, autoVars, trayVars>>

NextWriteback == ExternalEdit \/ DebouncerSend \/ ReloadOnEvent

SpecWriteback == InitWriteback /\ [][NextWriteback]_vars

-----------------------------------------------------------------------------
(* Parts routes: routes/parts.rs.  A string is a sequence of characters.    *)
(* A table of the library carries its rows (components) and its resolved   *)
(* schema (template): fields, a sequence of [k, v] pairs, and the flags.    *)

MpnKey == <<"m", "p", "n">>

ValueColumn == <<"v", "a", "l", "u", "e">>

DescriptionKey == <<"d", "e", "s", "c", "r", "i", "p", "t", "i", "o", "n">>

SymbolKey == <<"s", "y", "m", "b", "o", "l">>

ReferenceKey == <<"r", "e", "f", "e", "r", "e", "n", "c", "e">>

ExcludeFrom == <<"e", "x", "c", "l", "u", "d", "e", "_", "f", "r", "o", "m", "_">>

\* The column of a flag of Flags.
ExcludeKey(flag) ==
    CASE flag = "exclude_from_bom" -> ExcludeFrom \o <<"b", "o", "m">>
      [] flag = "exclude_from_board" -> ExcludeFrom \o <<"b", "o", "a", "r", "d">>
      [] flag = "exclude_from_sim" -> ExcludeFrom \o <<"s", "i", "m">>

TOP_LEVEL_COLUMNS == {IdKey, SymbolKey} \cup {ExcludeKey(f) : f \in Flags}

VISIBLE_BY_DEFAULT == {ValueColumn, ReferenceKey}

JsonSuffix == <<".", "j", "s", "o", "n">>

TrueStr == <<"T", "r", "u", "e">>

FalseStr == <<"F", "a", "l", "s", "e">>

\* str::strip_suffix
StripSuffix(s, suffix) ==
    IF Len(s) >= Len(suffix) /\ SubSeq(s, Len(s) - Len(suffix) + 1, Len(s)) = suffix
    THEN Some(SubSeq(s, 1, Len(s) - Len(suffix)))
    ELSE None

RECURSIVE DigitsValue(_, _)
DigitsValue(s, acc) ==
    IF s = <<>> THEN acc
    ELSE DigitsValue(Tail(s), 10 * acc + (CHOOSE d \in DOMAIN Digits : Digits[d] = Head(s)) - 1)

\* str::parse::<usize>: an optional + and one or more decimal digits (the
\* strings of the model are too short to overflow a usize).
ParseUsize(s) ==
    LET digits == IF s # <<>> /\ Head(s) = "+" THEN Tail(s) ELSE s
    IN  IF digits = <<>> \/ \E i \in DOMAIN digits : ~Contains(Digits, digits[i])
        THEN None
        ELSE Some(DigitsValue(digits, 0))

CheckedSubSaturating(n, m) == Some(IF n >= m THEN n - m ELSE 0)

\* usize::checked_sub
CheckedSub(n, m) == IF n >= m THEN Some(n - m) ELSE None

\* Option::or_else
OrElse(opt, other) == IF opt # None THEN opt ELSE other

\* Option<String>::unwrap_or_default
UnwrapOrDefault(opt) == IF opt # None THEN opt[1] ELSE <<>>

\* The name of a part: row.get("mpn").or_else(|| row.get("value")).
PartName(row) == UnwrapOrDefault(OrElse(RowGet(row, MpnKey), RowGet(row, ValueColumn)))

PartSummary(row) ==
    [id |-> UnwrapOrDefault(RowGet(row, IdKey)),
     name |-> PartName(row),
     description |-> UnwrapOrDefault(RowGet(row, DescriptionKey))]

NotFound == [status |-> 404]

OkJson(body) == [status |-> 200, body |-> body]

\* usize::to_string
RECURSIVE UsizeToString(_)
UsizeToString(n) ==
    IF n < 10 THEN <<Digits[n + 1]>>
    ELSE UsizeToString(n \div 10) \o <<Digits[(n % 10) + 1]>>

Category(id, name) == [id |-> id, name |-> name, description |-> <<>>]

\* get_categories: routes/categories.rs
GetCategories(tables) ==
    OkJson([i \in DOMAIN tables |-> Category(UsizeToString((i - 1) + 1), tables[i].name)])

\* The index (from 1) of the table a category id names, or None.
CategoryIndex(tables, category_id) ==
    LET id == UnwrapOr(StripSuffix(category_id, JsonSuffix), category_id)
        n == ParseUsize(id)
        idx == IF n = None THEN None ELSE CheckedSub(n[1], 1)
    IN  IF idx = None \/ idx[1] + 1 > Len(tables) THEN None ELSE Some(idx[1] + 1)

\* get_parts_by_category
GetPartsByCategory(tables, category_id) ==
    LET idx == CategoryIndex(tables, category_id)
    IN  IF idx = None THEN NotFound
        ELSE LET rows == tables[idx[1]].components
             IN  OkJson([i \in DOMAIN rows |-> PartSummary(rows[i])])

DisplayNameFor(column, schema) ==
    LET f == RowGet(schema.fields, column)
    IN  IF f # None THEN f[1].display_name ELSE column

VisibleForSchemaOnly(column, schema) ==
    LET f == RowGet(schema.fields, column)
    IN  IF f # None /\ f[1].visible THEN None ELSE Some(FalseStr)

VisibleFor(column, schema) ==
    IF column \in VISIBLE_BY_DEFAULT THEN None
    ELSE LET f == RowGet(schema.fields, column)
         IN  IF f # None /\ f[1].visible THEN None ELSE Some(FalseStr)

BoolToKicad(b) == IF b THEN TrueStr ELSE FalseStr

UpperCase == <<"A", "B", "C", "D", "E", "F", "G", "H", "I", "J", "K", "L", "M",
               "N", "O", "P", "Q", "R", "S", "T", "U", "V", "W", "X", "Y", "Z">>

LowerCase == <<"a", "b", "c", "d", "e", "f", "g", "h", "i", "j", "k", "l", "m",
               "n", "o", "p", "q", "r", "s", "t", "u", "v", "w", "x", "y", "z">>

\* str::to_lowercase, on ASCII strings
ToLowercase(s) ==
    [i \in DOMAIN s |->
        IF Contains(UpperCase, s[i])
        THEN LowerCase[CHOOSE j \in DOMAIN UpperCase : UpperCase[j] = s[i]]
        ELSE s[i]]

BoolStr(s) ==
    IF ToLowercase(s) \in {<<"t", "r", "u", "e">>, <<"1">>, <<"y", "e", "s">>}
    THEN TrueStr
    ELSE FalseStr

ExcludeFlag(row, field, schema_default) ==
    LET v == RowGet(row, field)
    IN  IF v # None /\ v[1] # <<>> THEN BoolStr(v[1]) ELSE BoolToKicad(schema_default)

\* The loop of build_part_detail over the columns of the row, from column i.
RECURSIVE PartFields(_, _, _, _)
PartFields(row, schema, i, fields) ==
    IF i > Len(row) THEN fields
    ELSE IF row[i].k \in TOP_LEVEL_COLUMNS THEN PartFields(row, schema, i + 1, fields)
    ELSE PartFields(row, schema, i + 1,
                    RowInsert(fields, DisplayNameFor(row[i].k, schema),
                              [value |-> row[i].v, visible |-> VisibleFor(row[i].k, schema)]))

BuildPartDetail(row, schema) ==
    [id |-> UnwrapOrDefault(RowGet(row, IdKey)),
     name |-> PartName(row),
     symbol_id_str |-> UnwrapOrDefault(RowGet(row, SymbolKey)),
     exclude_from_bom |->
        ExcludeFlag(row, ExcludeKey("exclude_from_bom"), schema.flags["exclude_from_bom"]),
     exclude_from_board |->
        ExcludeFlag(row, ExcludeKey("exclude_from_board"), schema.flags["exclude_from_board"]),
     exclude_from_sim |->
        ExcludeFlag(row, ExcludeKey("exclude_from_sim"), schema.flags["exclude_from_sim"]),
     fields |-> PartFields(row, schema, 1, <<>>)]

RECURSIVE FindPartLatest(_, _, _)
FindPartLatest(tables, part_id, t) ==
    IF t > Len(tables) THEN None
    ELSE LET rows == tables[t].components
             hits == {r \in DOMAIN rows : RowGet(rows[r], IdKey) = Some(part_id)}
             later == FindPartLatest(tables, part_id, t + 1)
         IN  IF later # None THEN later
             ELSE IF hits # {}
             THEN Some(<<t, CHOOSE r \in hits : \A q \in hits : r <= q>>)
             ELSE None

\* The first row with the id, searching the tables from table t in order:
\* Some(<<table, row>>) or None.
RECURSIVE FindPart(_, _, _)
FindPart(tables, part_id, t) ==
    IF t > Len(tables) THEN None
    ELSE LET rows == tables[t].components
             hits == {r \in DOMAIN rows : RowGet(rows[r], IdKey) = Some(part_id)}
         IN  IF hits # {}
             THEN Some(<<t, CHOOSE r \in hits : \A q \in hits : r <= q>>)
             ELSE FindPart(tables, part_id, t + 1)

\* get_part_detail
GetPartDetail(tables, part_id) ==
    LET id == UnwrapOr(StripSuffix(part_id, JsonSuffix), part_id)
        hit == FindPart(tables, id, 1)
    IN  IF hit = None THEN NotFound
        ELSE OkJson(BuildPartDetail(tables[hit[1][1]].components[hit[1][2]],
                                    tables[hit[1][1]].template))

-----------------------------------------------------------------------------
(* Specification SpecParts: requests to the two parts routes on a library   *)
(* of up to two tables.  The rows of the first table take every combination *)
(* of an absent, empty and non-empty mpn and value.                         *)

Column(key, opt) == IF opt = None THEN <<>> ELSE <<[k |-> key, v |-> opt[1]]>>

PartRow(id, mpn, value) ==
    Column(IdKey, id) \o Column(MpnKey, mpn) \o Column(ValueColumn, value)

PartRows ==
    {PartRow(Some(<<"1">>), m, v) :
        m \in {None, Some(<<>>), Some(<<"M">>)}, v \in {None, Some(<<>>), Some(<<"V">>)}}
    \cup {PartRow(Some(<<"2">>), Some(<<"M">>), Some(<<"V">>))}

ExtraColumns ==
    {<<>>,
     <<[k |-> DescriptionKey, v |-> <<"D">>],
       [k |-> SymbolKey, v |-> <<"S">>],
       [k |-> ExcludeKey("exclude_from_bom"), v |-> <<"Y", "e", "s">>],
       [k |-> ExcludeKey("exclude_from_sim"), v |-> <<>>],
       [k |-> ReferenceKey, v |-> <<"R">>]>>}

TemplateField(key, display_name, visible) ==
    [k |-> key, v |-> [display_name |-> display_name, visible |-> visible]]

Templates ==
    {SchemaOk([f \in Flags |-> FALSE], <<>>),
     SchemaOk([f \in Flags |-> f # "exclude_from_bom"],
              <<TemplateField(MpnKey, <<"M", "P", "N">>, TRUE),
                TemplateField(ValueColumn, <<"V", "a", "l">>, FALSE),
                TemplateField(DescriptionKey, <<"M", "P", "N">>, FALSE)>>)}

PartTable(name, components, template) ==
    [name |-> name, components |-> components, template |-> template]

SecondTables ==
    {<<>>,
     <<PartTable("t2",
                 <<PartRow(Some(<<"1">>), Some(<<"N">>), None),
                   PartRow(None, None, Some(<<"W">>))>>,
                 SchemaOk([f \in Flags |-> FALSE], <<>>))>>}

CategoryIds ==
    {<<"1">>, <<"2">>, <<"3">>, <<"0">>, <<"0", "1">>, <<"+", "2">>, <<"-", "1">>,
     <<"x">>, <<>>, <<"1">> \o JsonSuffix}

PartIds == {<<"1">>, <<"2">>, <<"3">>, <<>>, <<"1">> \o JsonSuffix}

InitParts ==
    \E rows \in SeqsUpTo(PartRows, MaxRows), extra \in ExtraColumns,
       template \in Templates, second \in SecondTables :
        /\ persisted = <<>>
        /\ lastOp = [op |-> "new"]
        /\ disk = [p \in AllLibraryPaths |-> DiskLibrary("ok", 0, None)]
        /\ heap = <<>>
        /\ libraries = <<>>
        /\ ReadersOff
        /\ WritebackOff
        /\ KicadOff
        /\ SchemaOff
        /\ CsvOff
        /\ LockOff
        /\ WatcherOff
        /\ AuthOff
        /\ AutoOff
        /\ TrayOff
        /\ part_tables =
              <<PartTable("t1", [i \in DOMAIN rows |-> rows[i] \o extra], template)>>
              \o second
        /\ partsLast = [op |-> "none"]

\* GET /v1/parts/category/{categoryId}
PartsByCategoryRequest ==
    \E category_id \in CategoryIds :
        /\ partsLast' = [op |-> "parts", id |-> category_id,
                         table |-> CategoryIndex(part_tables, category_id),
                         res |-> GetPartsByCategory(part_tables, category_id)]
        /\ UNCHANGED <<writebackVars, kicadVars, schemaVars, csvVars, lockVars, persistVars, disk, runtimeVars,
                       readerVars, watcherVars, authVars, autoVars, trayVars, part_tables>>

\* GET /v1/parts/{partId}
PartDetailRequest ==
    \E part_id \in PartIds :
        /\ partsLast' = [op |-> "detail", id |-> part_id,
                         res |-> GetPartDetail(part_tables, part_id)]
        /\ UNCHANGED <<writebackVars, kicadVars, schemaVars, csvVars, lockVars, persistVars, disk, runtimeVars,
                       readerVars, watcherVars, authVars, autoVars, trayVars, part_tables>>

\* GET /v1/categories.json
CategoriesRequest ==
    /\ partsLast' = [op |-> "categories", res |-> GetCategories(part_tables)]
    /\ UNCHANGED <<writebackVars, kicadVars, schemaVars, csvVars, lockVars, persistVars, disk, runtimeVars,
                   readerVars, watcherVars, authVars, autoVars, trayVars, part_tables>>

NextParts == CategoriesRequest \/ PartsByCategoryRequest \/ PartDetailRequest

SpecParts == InitParts /\ [][NextParts]_vars

-----------------------------------------------------------------------------
(* KiCad library tables: data/kicad_libs.rs.  A library table is the list  *)
(* of its LibEntry values, the uri already expanded to a path.  The file    *)
(* system gives, for a path, nothing, a file (unreadable, or the names of   *)
(* its top-level symbol blocks as written) or a directory (its file names). *)
(* Each map of KicadLibraries is behind a Mutex: a call is one step.        *)

Found == [tag |-> "Found"]

LibraryNotFound(lib) == [tag |-> "LibraryNotFound", lib |-> lib]

EntryNotFound(lib, entry) == [tag |-> "EntryNotFound", lib |-> lib, entry |-> entry]

LibraryUnreadable(lib) == [tag |-> "LibraryUnreadable", lib |-> lib]

LibEntry(name, uri) == [name |-> name, uri |-> uri]

Pending(path) == [state |-> "Pending", path |-> path]

Loaded(names) == [state |-> "Loaded", entries |-> names, set |-> Range(names)]

Unreadable == [state |-> "Unreadable"]

NoNode == [kind |-> "none"]

FileNode(readable, symbols) == [kind |-> "file", readable |-> readable, symbols |-> symbols]

DirNode(names) == [kind |-> "dir", names |-> names]

\* str::split_once(':'): the parts before and after the first colon.
SplitOnce(s) ==
    IF \E i \in DOMAIN s : s[i] = ":"
    THEN LET i == CHOOSE j \in DOMAIN s : s[j] = ":" /\ \A q \in 1..(j - 1) : s[q] # ":"
         IN  Some(<<SubSeq(s, 1, i - 1), SubSeq(s, i + 1, Len(s))>>)
    ELSE None

\* Path::exists
LibPathExists(fs, path) == path \in DOMAIN fs /\ fs[path].kind # "none"

\* build_lib_map: the first entry of a name wins; a path that exists is
\* Pending, any other Unreadable.
RECURSIVE BuildLibMap(_, _, _)
BuildLibMap(lib_entries, fs, map) ==
    IF lib_entries = <<>> THEN map
    ELSE LET entry == Head(lib_entries)
         IN  IF entry.name \in DOMAIN map THEN BuildLibMap(Tail(lib_entries), fs, map)
             ELSE BuildLibMap(Tail(lib_entries), fs,
                              [n \in DOMAIN map \cup {entry.name} |->
                                  IF n = entry.name
                                  THEN IF LibPathExists(fs, entry.uri) THEN Pending(entry.uri)
                                       ELSE Unreadable
                                  ELSE map[n]])

\* The name of a symbol block without its library prefix.
SymbolName(raw_name) ==
    IF SplitOnce(raw_name) # None THEN SplitOnce(raw_name)[1][2] ELSE raw_name

\* load_symbol_lib: read_to_string, then the names extract_symbol_names
\* pushes, one per top-level symbol block.
LoadSymbolLib(fs, path) ==
    IF LibPathExists(fs, path) /\ fs[path].kind = "file" /\ fs[path].readable
    THEN Some([i \in DOMAIN fs[path].symbols |-> SymbolName(fs[path].symbols[i])])
    ELSE None

KicadMod == <<".", "k", "i", "c", "a", "d", "_", "m", "o", "d">>

\* extract_footprints_from_dir: the stems of the .kicad_mod files.
RECURSIVE ExtractFootprintsFromDir(_)
ExtractFootprintsFromDir(names) ==
    IF names = <<>> THEN <<>>
    ELSE (IF StripSuffix(Head(names), KicadMod) # None
          THEN <<StripSuffix(Head(names), KicadMod)[1]>> ELSE <<>>)
         \o ExtractFootprintsFromDir(Tail(names))

\* load_footprint_lib
LoadFootprintLib(fs, path) ==
    IF LibPathExists(fs, path) /\ fs[path].kind = "dir"
    THEN Some(ExtractFootprintsFromDir(fs[path].names))
    ELSE None

\* The loader has_symbol and list_symbols, has_footprint and list_footprints
\* hand to lazy_lookup and list_entries.
Loader(kind, fs, path) ==
    IF kind = "symbol" THEN LoadSymbolLib(fs, path) ELSE LoadFootprintLib(fs, path)

\* A plausible slip: a library that failed to load is left Pending.
ForceLoadPendingRetry(map, lib_name, kind, fs) ==
    LET loaded == Loader(kind, fs, map[lib_name].path)
    IN  IF loaded # None
        THEN [map |-> [map EXCEPT ![lib_name] = Loaded(loaded[1])], res |-> loaded]
        ELSE [map |-> map, res |-> None]

\* force_load_pending: the map afterwards and the entries, None on failure.
ForceLoadPending(map, lib_name, kind, fs) ==
    LET loaded == Loader(kind, fs, map[lib_name].path)
    IN  IF loaded # None
        THEN [map |-> [map EXCEPT ![lib_name] = Loaded(loaded[1])], res |-> loaded]
        ELSE [map |-> [map EXCEPT ![lib_name] = Unreadable], res |-> None]

\* A plausible slip: the library is loaded but left Pending in the map.
LazyLookupUncached(map, reference, kind, fs) ==
    LET parts == SplitOnce(reference)
    IN  IF parts = None THEN [map |-> map, res |-> LibraryNotFound(reference)]
        ELSE LET lib_name == parts[1][1]
                 entry_name == parts[1][2]
             IN  IF lib_name \notin DOMAIN map
                 THEN [map |-> map, res |-> LibraryNotFound(lib_name)]
                 ELSE IF map[lib_name].state = "Loaded"
                 THEN [map |-> map,
                       res |-> IF entry_name \in map[lib_name].set THEN Found
                               ELSE EntryNotFound(lib_name, entry_name)]
                 ELSE IF map[lib_name].state = "Unreadable"
                 THEN [map |-> map, res |-> LibraryUnreadable(lib_name)]
                 ELSE LET loaded == Loader(kind, fs, map[lib_name].path)
                      IN  [map |-> map,
                           res |-> IF loaded = None THEN LibraryUnreadable(lib_name)
                                   ELSE IF entry_name \in Range(loaded[1]) THEN Found
                                   ELSE EntryNotFound(lib_name, entry_name)]

\* lazy_lookup: the map afterwards and the LibLookup.
LazyLookup(map, reference, kind, fs) ==
    LET parts == SplitOnce(reference)
    IN  IF parts = None THEN [map |-> map, res |-> LibraryNotFound(reference)]
        ELSE LET lib_name == parts[1][1]
                 entry_name == parts[1][2]
             IN  IF lib_name \notin DOMAIN map
                 THEN [map |-> map, res |-> LibraryNotFound(lib_name)]
                 ELSE IF map[lib_name].state = "Loaded"
                 THEN [map |-> map,
                       res |-> IF entry_name \in map[lib_name].set THEN Found
                               ELSE EntryNotFound(lib_name, entry_name)]
                 ELSE IF map[lib_name].state = "Unreadable"
                 THEN [map |-> map, res |-> LibraryUnreadable(lib_name)]
                 ELSE LET forced == ForceLoadPending(map, lib_name, kind, fs)
                      IN  [map |-> forced.map,
                           res |-> IF forced.res = None THEN LibraryUnreadable(lib_name)
                                   ELSE IF entry_name \in Range(forced.res[1]) THEN Found
                                   ELSE EntryNotFound(lib_name, entry_name)]

\* list_entries: the map afterwards and the entries, or None.
ListEntries(map, lib_name, kind, fs) ==
    IF lib_name \notin DOMAIN map THEN [map |-> map, res |-> None]
    ELSE IF map[lib_name].state = "Loaded"
    THEN [map |-> map, res |-> Some(map[lib_name].entries)]
    ELSE IF map[lib_name].state = "Unreadable" THEN [map |-> map, res |-> None]
    ELSE ForceLoadPending(map, lib_name, kind, fs)

\* The field of KicadLibraries a kind of call works on.
LibsField(kind) == IF kind = "symbol" THEN "symbol_libs" ELSE "footprint_libs"

-----------------------------------------------------------------------------
(* Specification SpecKicad: KicadLibraries::load on small library tables,  *)
(* then up to MaxLookups has_symbol, has_footprint, list_symbols and        *)
(* list_footprints calls, the library at lib/a being replaced or removed    *)
(* at some point.                                                           *)

LibNameL == <<"L">>

LibNameK == <<"K">>

LibPaths == {<<"lib", "a">>, <<"lib", "b">>}

SymbolTables ==
    {<<LibEntry(LibNameL, <<"lib", "a">>)>>,
     <<LibEntry(LibNameL, <<"lib", "a">>), LibEntry(LibNameK, <<"lib", "b">>),
       LibEntry(LibNameL, <<"lib", "b">>)>>}

FootprintTables ==
    {<<>>,
     <<LibEntry(LibNameK, <<"lib", "b">>), LibEntry(LibNameL, <<"lib", "a">>)>>}

LibNodes ==
    {NoNode,
     FileNode(TRUE, <<<<"R">>, <<"L", ":", "C">>>>),
     DirNode(<<<<"R">> \o KicadMod, <<"x">>>>)}

\* The nodes a library path changes to after the tables were read.
LaterNodes ==
    {NoNode,
     FileNode(FALSE, <<>>),
     FileNode(TRUE, <<<<"C">>>>),
     DirNode(<<<<"C">> \o KicadMod>>)}

References == {<<"L", ":", "R">>, <<"L", ":", "C">>, <<"N", ":", "R">>, <<"L", "R">>}

LookupKinds == {"symbol", "footprint"}

InitKicad ==
    \E st \in SymbolTables, ft \in FootprintTables, fs \in [LibPaths -> LibNodes] :
        /\ persisted = <<>>
        /\ lastOp = [op |-> "new"]
        /\ disk = [p \in AllLibraryPaths |-> DiskLibrary("ok", 0, None)]
        /\ heap = <<>>
        /\ libraries = <<>>
        /\ ReadersOff
        /\ WritebackOff
        /\ PartsOff
        /\ SchemaOff
        /\ CsvOff
        /\ LockOff
        /\ WatcherOff
        /\ AuthOff
        /\ AutoOff
        /\ TrayOff
        /\ kicad = [symbol_libs |-> BuildLibMap(st, fs, <<>>),
                    footprint_libs |-> BuildLibMap(ft, fs, <<>>)]
        /\ libFs = fs
        /\ lookLog = <<>>
        /\ loaderCalls = <<>>

\* The loader calls a call makes: one when the library was Pending.
LoaderCalled(kind, lib_name) ==
    IF lib_name \in DOMAIN kicad[LibsField(kind)]
       /\ kicad[LibsField(kind)][lib_name].state = "Pending"
    THEN <<<<kind, lib_name>>>> ELSE <<>>

\* has_symbol(reference), has_footprint(reference)
HasEntry ==
    \E kind \in LookupKinds, reference \in References :
        LET call == LazyLookup(kicad[LibsField(kind)], reference, kind, libFs)
            parts == SplitOnce(reference)
        IN  /\ Len(lookLog) < MaxLookups
            /\ kicad' = [kicad EXCEPT ![LibsField(kind)] = call.map]
            /\ lookLog' = Append(lookLog, [op |-> "has", kind |-> kind, arg |-> reference,
                                           before |-> kicad, fs |-> libFs, res |-> call.res])
            /\ loaderCalls' = loaderCalls
                  \o (IF parts = None THEN <<>> ELSE LoaderCalled(kind, parts[1][1]))
            /\ UNCHANGED <<writebackVars, partsVars, schemaVars, csvVars, lockVars, persistVars, disk,
                           runtimeVars, readerVars, watcherVars, authVars, autoVars, trayVars,
                           libFs>>

\* list_symbols(lib_name), list_footprints(lib_name)
ListLibrary ==
    \E kind \in LookupKinds, lib_name \in {LibNameL} :
        LET call == ListEntries(kicad[LibsField(kind)], lib_name, kind, libFs)
        IN  /\ Len(lookLog) < MaxLookups
            /\ kicad' = [kicad EXCEPT ![LibsField(kind)] = call.map]
            /\ lookLog' = Append(lookLog, [op |-> "list", kind |-> kind, arg |-> lib_name,
                                           before |-> kicad, fs |-> libFs, res |-> call.res])
            /\ loaderCalls' = loaderCalls \o LoaderCalled(kind, lib_name)
            /\ UNCHANGED <<writebackVars, partsVars, schemaVars, csvVars, lockVars, persistVars, disk,
                           runtimeVars, readerVars, watcherVars, authVars, autoVars, trayVars,
                           libFs>>

\* A library file or directory is written, replaced or removed.
LibFsChange ==
    \E path \in {<<"lib", "a">>}, node \in LaterNodes :
        /\ Len(lookLog) < MaxLookups
        /\ libFs[path] \in LibNodes
        /\ libFs' = [libFs EXCEPT ![path] = node]
        /\ UNCHANGED <<writebackVars, partsVars, schemaVars, csvVars, lockVars, persistVars, disk,
                       runtimeVars, readerVars, watcherVars, authVars, autoVars, trayVars,
                       kicad, lookLog, loaderCalls>>

NextKicad == HasEntry \/ ListLibrary \/ LibFsChange

SpecKicad == InitKicad /\ [][NextKicad]_vars

----------------------------------------------------------------------------
(* C1: for one token, under any interleaving of get(token) with            *)
(* reload(token, path), every get returns either the complete library      *)
(* installed before the reload or the complete library loaded by the       *)
(* reload, never a mixture; a handle obtained before the reload keeps      *)
(* referring to the unchanged old library after the reload has replaced    *)
(* the slot.                                                               *)

\* A library no load_library call returns: component types of two generations.
C1_Mixed(lib) == \E i, j \in DOMAIN lib.component_types :
                    lib.component_types[i] # lib.component_types[j]

C1_GetSeesOldOrNew ==
    \A r \in Readers :
        got[r] # None =>
            LET g == got[r][1]
            IN  /\ g.expect # {} => g.value \in g.expect
                /\ g.value # None => ~C1_Mixed(g.value[1])
                /\ handle[r] # None => heap[handle[r][1]] = g.value[1]

\* A reader got the old library while a reload of its token was in flight,
\* the reload has since replaced the slot with a different library, and the
\* reader still holds its handle.
C1_Witness ==
    \E r \in Readers :
        /\ got[r] # None
        /\ handle[r] # None
        /\ got[r][1].inflight
        /\ rl.pc = "idle"
        /\ rl.last # None
        /\ rl.last[1].ok
        /\ rl.last[1].token = got[r][1].token
        /\ rl.last[1].post # got[r][1].value
        /\ libraries[got[r][1].token] # handle[r][1]

----------------------------------------------------------------------------
(* C2: if reload(token, path) fails (manifest, schema or CSV error), the   *)
(* runtime registry is left unchanged: get(token) still returns the        *)
(* library that was live before the failed reload, every other token is    *)
(* untouched, and the content watcher keeps processing later events.       *)

\* The watcher has just handled an event whose reloads all failed.
C2_FailedStep ==
    /\ lastEv' # lastEv
    /\ lastEv'[1].tag = "event"
    /\ lastEv'[1].calls # <<>>
    /\ \A i \in DOMAIN lastEv'[1].calls : ~lastEv'[1].calls[i].ok

C2_FailedReloadKeepsRegistry ==
    [][C2_FailedStep =>
        /\ libraries' = libraries
        /\ heap' = heap
        /\ \A t \in RegTokens : RegistryGet(libraries', t) = RegistryGet(libraries, t)
        /\ watcher' = "running"
        /\ channel' = IF Len(Head(channel).events) = 1 THEN Tail(channel)
                      ELSE <<EventsMsg(Tail(Head(channel).events))>> \o Tail(channel)]_vars

\* A reload failed for a registered token, and the watcher then handled a
\* later event with a successful reload.
C2_Witness ==
    /\ lastEv # None
    /\ lastEv[1].prevFailed
    /\ lastEv[1].tag = "event"
    /\ \E i \in DOMAIN lastEv[1].calls : lastEv[1].calls[i].ok
    /\ watcher = "running"

----------------------------------------------------------------------------
(* C3: when the runtime registry does not hold exactly one token (zero, or *)
(* two or more), a request reaches a handler only if it carries an         *)
(* Authorization header of the form `Token <t>` where t is a token         *)
(* currently in the registry, and the library handed to the handler is the *)
(* one registered under t; a request with a missing header, a header not   *)
(* starting with `Token `, or an unknown token is answered 401 and reaches *)
(* no handler.  The registry's token count is the one the middleware read. *)

\* The tokens t of the registry for which the header is exactly `Token <t>`.
C3_NamedTokens(r) ==
    {t \in DOMAIN r.registry :
        r.header # None /\ r.header[1].ascii /\ r.header[1].text = TokenPrefix \o t}

C3_MultiProjectNeedsToken ==
    (req.pc = "done" /\ Cardinality(req.tokens) # 1) =>
        /\ req.response.status = 200 =>
              \E t \in C3_NamedTokens(req) : req.response.library = Some(req.registry[t])
        /\ C3_NamedTokens(req) = {} =>
              (req.response.status = 401 /\ req.response.library = None)

\* With two tokens registered, a request naming one of them was served from
\* that token's library.
C3_Witness ==
    /\ req.pc = "done"
    /\ Cardinality(req.tokens) = 2
    /\ req.response.status = 200
    /\ req.header = Some(HeaderValue(TRUE, TokenPrefix \o TokenB))
    /\ req.response.library = Some(req.registry[TokenB])

----------------------------------------------------------------------------
(* C4: when the runtime registry holds exactly one token, the              *)
(* Authorization header is not checked: every request is served from that  *)
(* token's library, whether the header is absent, malformed, or names a    *)
(* different token.                                                        *)
C4_SingleProjectSkipsAuth ==
    (/\ req.pc = "done"
     /\ Cardinality(req.tokens) = 1
     /\ req.tokens = DOMAIN req.registry) =>
        /\ req.response.status = 200
        /\ \A t \in req.tokens : req.response.library = Some(req.registry[t])

\* With only token a registered, a request naming token b was served from
\* a's library.
C4_Witness ==
    /\ req.pc = "done"
    /\ req.tokens = {TokenA}
    /\ DOMAIN req.registry = {TokenA}
    /\ req.header = Some(HeaderValue(TRUE, TokenPrefix \o TokenB))
    /\ req.response = Served(req.registry[TokenA])

----------------------------------------------------------------------------
(* C5: for every persistent-registry entry (token, library_path) whose     *)
(* library path existed when the content watcher was started, a debounced  *)
(* change event for a file with extension csv, yaml or yml under           *)
(* library_path causes reload(token, library_path) to be called; this      *)
(* holds for every such entry, also when two entries with different tokens *)
(* share the same library path or one watched path lies inside another.    *)
C5_EveryEntryReloaded ==
    (/\ lastEv # None
     /\ lastEv[1].tag = "event"
     /\ lastEv[1].event.kind = "Any"
     /\ Extension(lastEv[1].event.file) \in {Some("csv"), Some("yaml"), Some("yml")})
    => \A i \in DOMAIN persisted :
          (/\ persisted[i].library_path \in existed
           /\ IsPrefix(persisted[i].library_path, lastEv[1].event.dir))
          => \E k \in DOMAIN lastEv[1].calls :
                /\ lastEv[1].calls[k].token = persisted[i].token
                /\ lastEv[1].calls[k].library_path = persisted[i].library_path

----------------------------------------------------------------------------
(* C6: every mutation of the persistent registry, by discovery             *)
(* auto-registration and by the remove_project command alike, is made on   *)
(* the one lock-guarded registry and saved under that lock, so that in no  *)
(* interleaving of a discovery registration with a remove_project does the *)
(* saved registry lose either update: an entry removed by remove_project   *)
(* is not written back by a later discovery save, and a discovered entry   *)
(* is not dropped by a later remove_project save.                          *)
C6_NoLostUpdate ==
    saved # None =>
        /\ \A e \in Range(saved[1]) : e.token \notin removed
        /\ \A e \in discovered : e.token \notin removed => e \in Range(saved[1])

----------------------------------------------------------------------------
(* C7: starting from an empty persistent registry, after any sequence of   *)
(* upsert, remove_by_path and remove_by_library_path calls, no two         *)
(* project-attached entries share the same (project_path, library_path)    *)
(* pair and no two standalone entries share the same library_path.         *)
C7_UniqueKeys ==
    \A i, j \in DOMAIN persisted :
        i # j =>
            /\ (~IsNone(persisted[i].project_path) /\ ~IsNone(persisted[j].project_path))
                => ~(persisted[i].project_path = persisted[j].project_path
                     /\ persisted[i].library_path = persisted[j].library_path)
            /\ (IsNone(persisted[i].project_path) /\ IsNone(persisted[j].project_path))
                => persisted[i].library_path # persisted[j].library_path

\* An upsert hit an existing key (attached or standalone) and the registry
\* also holds a standalone and an attached entry for one library path.
C7_Witness ==
    /\ lastOp.op = "upsert"
    /\ Len(lastOp.before) = 2
    /\ Len(persisted) = 2
    /\ \E i, j \in DOMAIN persisted :
        /\ IsNone(persisted[i].project_path)
        /\ ~IsNone(persisted[j].project_path)
        /\ persisted[i].library_path = persisted[j].library_path

----------------------------------------------------------------------------
(* C8: for any project directory and any project manifest (including       *)
(* manifests that list several libraries), calling try_auto_register twice *)
(* in a row with the same registries and port leaves the persistent        *)
(* registry, the runtime registry's token set and the descriptor files     *)
(* after the second call identical to what they were after the first call, *)
(* and the second call returns 0 newly registered libraries.               *)
C8_SecondCallChangesNothing ==
    (/\ lastCall # None
     /\ prevCall # None
     /\ lastCall[1].dir = prevCall[1].dir) =>
        /\ lastCall[1].after = prevCall[1].after
        /\ lastCall[1].n = 0
        /\ lastCall[1].upserted = <<>>

----------------------------------------------------------------------------
(* C9: within one try_auto_register call on a manifest that lists several  *)
(* libraries, a library that fails to load prevents only its own           *)
(* registration: every other listed library that loads successfully,       *)
(* whether it is listed before or after the failing one, ends the call     *)
(* registered in both the persistent and the runtime registry.             *)

C9_Loads(dir, lib_ref) == LoadLibrary(disk, ResolveLibraryPath(disk, dir, lib_ref.path)).ok

C9_Registered(dir, lib_ref) ==
    \E i \in DOMAIN persisted :
        /\ persisted[i].project_path = Some(dir)
        /\ persisted[i].name = lib_ref.name
        /\ persisted[i].token \in RegistryTokens(libraries)

C9_FailureBlocksOnlyItself ==
    \A dir \in ProjectDirs :
        LET libs == manifest[dir].libraries
        IN  (/\ lastCall # None
             /\ lastCall[1].dir = dir
             /\ manifest[dir].status = "ok"
             /\ \E i \in DOMAIN libs : ~C9_Loads(dir, libs[i]))
            => \A j \in DOMAIN libs : C9_Loads(dir, libs[j]) => C9_Registered(dir, libs[j])

----------------------------------------------------------------------------
(* C10: whenever a try_auto_register call adds at least one new entry to   *)
(* the in-memory persistent registry, the persistent registry has been     *)
(* saved to disk, with that entry in it, by the time the call returns; no  *)
(* sequence of calls leaves an entry registered in memory and in the       *)
(* runtime registry but never saved.  Stated for a known registry path.    *)
C10_AddedEntriesAreSaved ==
    (configDir /\ lastCall # None) =>
        \A i \in DOMAIN persisted :
            (/\ persisted[i] \in Range(lastCall[1].upserted)
             /\ persisted[i].token \in RegistryTokens(libraries))
            => (saved # None /\ persisted[i] \in Range(saved[1]))

----------------------------------------------------------------------------
(* C11: for a library already registered for the project, a call of        *)
(* try_auto_register writes the descriptor file if and only if the file is *)
(* missing or differs from the expected content for the entry's name,      *)
(* description and token and the port; after the call the file equals the  *)
(* expected content.                                                       *)
C11_DescriptorReconciled ==
    (lastCall # None /\ manifest[lastCall[1].dir].status = "ok") =>
        LET c == lastCall[1]
            libs == manifest[c.dir].libraries
        IN  \A i \in DOMAIN libs :
                LET e == ExistingEntry(c.before.persisted, c.dir, libs[i].name)
                    key == <<c.dir, libs[i].name>>
                IN  e # None =>
                      LET expected == ExpectedHttplibContent(
                                          libs[i].name,
                                          ResolveDescription(libs[i].name, e[1].description),
                                          e[1].token, Port)
                          differs == \/ key \notin DOMAIN c.before.files
                                     \/ c.before.files[key] # expected
                      IN  /\ (\E w \in DOMAIN c.writes : c.writes[w] = key) <=> differs
                          /\ key \in DOMAIN c.after.files
                          /\ c.after.files[key] = expected

----------------------------------------------------------------------------
(* C12: no action of the discovery engine (initial scan, scan tick,        *)
(* ProjectOpened or ProjectClosed event, successful or failed              *)
(* auto-registration) unregisters a project: once the engine's persistent  *)
(* registry has an entry for a project directory it has one for that       *)
(* directory in every later state.                                         *)
C12_HasEntry(projects, dir) == \E i \in DOMAIN projects : projects[i].project_path = Some(dir)

C12_RegisteredIsSticky ==
    [][\A dir \in ProjectDirs : C12_HasEntry(persisted, dir) => C12_HasEntry(persisted', dir)]_vars

\* Both projects are registered, share a library directory, and the last
\* thing the engine saw was that a registered project was closed.
C12_Witness ==
    /\ lastOp.op = "closed"
    /\ Contains(lastOp.before, lastOp.dir)
    /\ active_dirs = <<>>
    /\ \A dir \in ProjectDirs : C12_HasEntry(persisted, dir)
    /\ \E i, j \in DOMAIN persisted :
          /\ persisted[i].project_path # persisted[j].project_path
          /\ persisted[i].library_path = persisted[j].library_path

----------------------------------------------------------------------------
(* C13: the lock watcher sends ProjectClosed(dir) for a deleted .lck file  *)
(* only if no file with extension lck exists in dir when the event is      *)
(* handled; an event for a deleted .lck file handled while another .lck    *)
(* file is in the directory sends nothing.                                 *)
C13_Handled == lockRx # <<>> /\ Head(lockRx).tag = "events" /\ lockRx' # lockRx
                 /\ debounce' = debounce /\ lockFiles' = lockFiles

C13_Sent == SubSeq(event_tx', Len(event_tx) + 1, Len(event_tx'))

----------------------------------------------------------------------------
(* C14: in a watched directory every creation of a .lck file produces      *)
(* exactly one ProjectOpened(dir), every deletion that leaves no .lck file *)
(* in the directory exactly one ProjectClosed(dir), whatever the timing of *)
(* the creations and deletions relative to the debounce window; no         *)
(* ProjectClosed(dir) is sent for a file whose creation produced no        *)
(* ProjectOpened(dir).                                                     *)
C14_Count(tag, dir) ==
    Cardinality({i \in DOMAIN event_tx : event_tx[i] = [tag |-> tag, dir |-> dir]})

C14_OneEventPerChange ==
    \A i \in DOMAIN watched_dirs :
        LET dir == watched_dirs[i]
        IN  /\ C14_Count("ProjectClosed", dir) <= C14_Count("ProjectOpened", dir)
            /\ (debounce = {} /\ lockRx = <<>>) =>
                  /\ C14_Count("ProjectOpened", dir) = fsCount[dir].creates
                  /\ C14_Count("ProjectClosed", dir) = fsCount[dir].empties

----------------------------------------------------------------------------
(* C15: after load_csv_with_ids returns successfully, on a file with or    *)
(* without an id column, with empty or repeated ids, every returned row    *)
(* has a non-empty id and no two returned rows have the same id; whenever  *)
(* the load rewrote the file, the rows on disk satisfy the same.           *)
C15_UniqueIds(rows) ==
    /\ \A r \in DOMAIN rows : RowGet(rows[r], IdKey) # None /\ RowGet(rows[r], IdKey)[1] # <<>>
    /\ \A q, r \in DOMAIN rows : q # r => RowGet(rows[q], IdKey) # RowGet(rows[r], IdKey)

\* The rows a reader finds in the file, as they are.
C15_RowsOnDisk(file) ==
    LET records == ParseCsv(file[1], 1, "record", <<>>, <<>>, <<>>)
    IN  [r \in 1..(Len(records) - 1) |-> RowOf(records[1], records[r + 1], 1, <<>>)]

C15_EveryRowHasUniqueId ==
    (csvLast.op = "load" /\ csvLast.ok) =>
        /\ C15_UniqueIds(csvLast.rows)
        /\ csvLast.wrote => C15_UniqueIds(C15_RowsOnDisk(csvFile))

\* A file whose two rows carried the same id was loaded and rewritten.
C15_Witness ==
    /\ csvLast.op = "load" /\ csvLast.ok /\ csvLast.wrote
    /\ Len(csvLast.rows) = 2
    /\ LET old == C15_RowsOnDisk(csvLast.before)
       IN  /\ RowGet(old[1], IdKey) = RowGet(old[2], IdKey)
           /\ RowGet(old[1], IdKey) \notin {None, Some(<<>>)}

----------------------------------------------------------------------------
(* C16: for every list of rows returned by load_csv_with_ids, write_csv of *)
(* those rows followed by load_csv_with_ids returns the same rows in the   *)
(* same order, each with the same values and the same column order.        *)
C16_RoundTrip ==
    (csvLast.op = "load" /\ csvLast.prev.op = "write") =>
        /\ csvLast.ok
        /\ csvLast.rows = csvLast.prev.rows

\* Rows with a comma in one value and a quote in another went through
\* write_csv and came back.
C16_Witness ==
    /\ csvLast.op = "load" /\ csvLast.prev.op = "write" /\ csvLast.ok
    /\ \E r \in DOMAIN csvLast.rows : RowGet(csvLast.rows[r], ValueKey) = Some(<<COMMA>>)
    /\ \E r \in DOMAIN csvLast.rows : RowGet(csvLast.rows[r], ValueKey) = Some(<<"a", QUOTE>>)

----------------------------------------------------------------------------
(* C17: for every schema whose based_on names a parent P, the resolved     *)
(* field keys are exactly keys(P) and keys(child): the parent's keys come  *)
(* first in the parent's order, a key defined in both keeps its position   *)
(* from P and takes the child's descriptor, and the keys defined only in   *)
(* the child follow in the child's order.                                  *)
C17_Expected(parent, child) ==
    LET childOnly(f) == ~HasKey(parent, f.k)
    IN  [i \in DOMAIN parent |->
            IF HasKey(child, parent[i].k)
            THEN [k |-> parent[i].k, v |-> RowGet(child, parent[i].k)[1]]
            ELSE parent[i]]
        \o SelectSeq(child, childOnly)

\* The last call returned a schema whose file names a parent that resolves.
C17_HasParent ==
    /\ schemaLast.op = "load"
    /\ schemaLast.res.outcome = "ok"
    /\ FileOf(schemas, schemaLast.name).based_on # None
    /\ LoadSchema(schemas, FileOf(schemas, schemaLast.name).based_on[1], {}).outcome = "ok"

C17_Parent == LoadSchema(schemas, FileOf(schemas, schemaLast.name).based_on[1], {})

C17_ParentThenChild ==
    C17_HasParent =>
        schemaLast.res.fields
            = C17_Expected(C17_Parent.fields, FileOf(schemas, schemaLast.name).fields)

\* C17 as amended: the same, for every schema other than _base.
C17_ParentThenChildExceptBase ==
    (C17_HasParent /\ schemaLast.name # BaseName) =>
        schemaLast.res.fields
            = C17_Expected(C17_Parent.fields, FileOf(schemas, schemaLast.name).fields)

\* b is based on a and a on _base; b redefines a key of its parent and adds
\* one of its own.
C17_Witness ==
    /\ C17_HasParent
    /\ schemaLast.name = "b"
    /\ schemas["b"].based_on = Some("a")
    /\ schemas["a"].based_on = Some(BaseName)
    /\ \E i, j \in DOMAIN schemas["b"].fields :
          /\ HasKey(C17_Parent.fields, schemas["b"].fields[i].k)
          /\ ~HasKey(C17_Parent.fields, schemas["b"].fields[j].k)

----------------------------------------------------------------------------
(* C18: each of exclude_from_bom, exclude_from_board and exclude_from_sim  *)
(* resolves to the child's value when the child sets it (true or false),   *)
(* otherwise to the parent's resolved value, and to false when neither the *)
(* schema nor any ancestor sets it, through every level of a based_on      *)
(* chain.                                                                  *)
C18_Resolved ==
    /\ schemaLast.op = "load"
    /\ schemaLast.res.outcome = "ok"
    /\ FileOf(schemas, schemaLast.name).based_on # None => C17_Parent.outcome = "ok"

C18_ExpectedFlag(f) ==
    LET file == FileOf(schemas, schemaLast.name)
    IN  IF file.flags[f] # None THEN file.flags[f][1]
        ELSE IF file.based_on # None THEN C17_Parent.flags[f]
        ELSE FALSE

C18_ChildWinsElseParent ==
    C18_Resolved => \A f \in Flags : schemaLast.res.flags[f] = C18_ExpectedFlag(f)

\* C18 as amended: the same, for every schema other than _base.
C18_ChildWinsElseParentExceptBase ==
    (C18_Resolved /\ schemaLast.name # BaseName) =>
        \A f \in Flags : schemaLast.res.flags[f] = C18_ExpectedFlag(f)

\* b is based on a and a on _base: b sets one flag to false that its parent
\* resolves to true, and inherits another, which only _base sets, as true.
C18_Witness ==
    /\ C18_Resolved
    /\ schemaLast.name = "b"
    /\ schemas["b"].based_on = Some("a")
    /\ schemas["a"].based_on = Some(BaseName)
    /\ \E f, g \in Flags :
          /\ schemas["b"].flags[f] = Some(FALSE)
          /\ C17_Parent.flags[f] = TRUE
          /\ schemaLast.res.flags[f] = FALSE
          /\ schemas["b"].flags[g] = None
          /\ schemas["a"].flags[g] = None
          /\ schemaLast.res.flags[g] = TRUE

----------------------------------------------------------------------------
(* C19: schema resolution terminates for every schemas directory: when     *)
(* following based_on comes back to a schema whose resolution is in        *)
(* progress, load_schema returns an error.                                 *)
C19_ResolutionTerminates ==
    schemaLast.op = "load" => schemaLast.res.outcome \in {"ok", "err"}

-----------------------------------------------------------------------------
(* C20: in the part summary and in the part detail, name is the row's mpn  *)
(* value when the row has an mpn column with a non-empty value, and        *)
(* otherwise the row's value column; a row with an empty mpn and a         *)
(* non-empty value gets the value column as its name.                      *)

C20_Name(row) ==
    LET mpn == RowGet(row, MpnKey)
        value == RowGet(row, ValueColumn)
    IN  IF mpn # None /\ mpn[1] # <<>> THEN mpn[1]
        ELSE IF value # None THEN value[1] ELSE <<>>

\* The row a part-detail request is answered with.
C20_DetailRow ==
    LET id == IF StripSuffix(partsLast.id, JsonSuffix) # None
              THEN StripSuffix(partsLast.id, JsonSuffix)[1] ELSE partsLast.id
        hit == FindPart(part_tables, id, 1)[1]
    IN  part_tables[hit[1]].components[hit[2]]

C20_NameIsMpnElseValue ==
    /\ (partsLast.op = "parts" /\ partsLast.res.status = 200) =>
          \A i \in DOMAIN partsLast.res.body :
              partsLast.res.body[i].name
                  = C20_Name(part_tables[partsLast.table[1]].components[i])
    /\ (partsLast.op = "detail" /\ partsLast.res.status = 200) =>
          partsLast.res.body.name = C20_Name(C20_DetailRow)

-----------------------------------------------------------------------------
(* C21: the fields mapping of the part detail has no entry for the columns *)
(* id, symbol, exclude_from_bom, exclude_from_board and exclude_from_sim,   *)
(* and one entry for every other column of the row, in row order, keyed by *)
(* the column's schema display name (the column name when the schema has   *)
(* no such field) and carrying the column's value; no column is lost, also *)
(* when two columns resolve to the same display name.                      *)

\* The table and the row a part-detail request is answered from.
C21_Table == part_tables[FindPart(part_tables, partsLast.res.body.id, 1)[1][1]]

RECURSIVE C21_Entries(_, _, _)
C21_Entries(row, schema, i) ==
    IF i > Len(row) THEN <<>>
    ELSE IF row[i].k \in TOP_LEVEL_COLUMNS THEN C21_Entries(row, schema, i + 1)
    ELSE LET d == RowGet(schema.fields, row[i].k)
         IN  <<[k |-> IF d = None THEN row[i].k ELSE d[1].display_name, value |-> row[i].v]>>
             \o C21_Entries(row, schema, i + 1)

C21_FieldsOfEveryColumn ==
    (partsLast.op = "detail" /\ partsLast.res.status = 200) =>
        LET fields == partsLast.res.body.fields
        IN  [j \in DOMAIN fields |-> [k |-> fields[j].k, value |-> fields[j].v.value]]
                = C21_Entries(C20_DetailRow, C21_Table.template, 1)

-----------------------------------------------------------------------------
(* C22: a field of the part detail carries visible "False" exactly when    *)
(* its column is neither value nor reference and its schema descriptor is  *)
(* missing or has visible false; value and reference never carry a visible *)
(* key, and a field whose descriptor has visible true carries none.  The   *)
(* column of a field is the column whose value the field carries: the last *)
(* column of the row with the field's display name.                        *)

C22_ColumnsOf(key) ==
    {i \in DOMAIN C20_DetailRow :
        /\ C20_DetailRow[i].k \notin TOP_LEVEL_COLUMNS
        /\ LET d == RowGet(C21_Table.template.fields, C20_DetailRow[i].k)
           IN  key = IF d = None THEN C20_DetailRow[i].k ELSE d[1].display_name}

C22_ColumnOf(key) ==
    C20_DetailRow[CHOOSE i \in C22_ColumnsOf(key) : \A j \in C22_ColumnsOf(key) : j <= i].k

C22_Hidden(column) ==
    LET d == RowGet(C21_Table.template.fields, column)
    IN  /\ column # ValueColumn
        /\ column # ReferenceKey
        /\ (d = None \/ ~d[1].visible)

C22_VisibleFalseIffHidden ==
    (partsLast.op = "detail" /\ partsLast.res.status = 200) =>
        \A j \in DOMAIN partsLast.res.body.fields :
            LET f == partsLast.res.body.fields[j]
            IN  /\ C22_ColumnsOf(f.k) # {}
                /\ f.v.visible = IF C22_Hidden(C22_ColumnOf(f.k)) THEN Some(FalseStr) ELSE None

\* A part whose schema sets visible false for value: the value field has no
\* visible key, the reference field neither, and another field has "False".
C22_Witness ==
    /\ partsLast.op = "detail"
    /\ partsLast.res.status = 200
    /\ LET d == RowGet(C21_Table.template.fields, ValueColumn)
       IN  d # None /\ ~d[1].visible
    /\ \E j, r, h \in DOMAIN partsLast.res.body.fields :
          /\ partsLast.res.body.fields[j].k = <<"V", "a", "l">>
          /\ partsLast.res.body.fields[j].v.visible = None
          /\ partsLast.res.body.fields[r].k = ReferenceKey
          /\ partsLast.res.body.fields[r].v.visible = None
          /\ partsLast.res.body.fields[h].v.visible = Some(FalseStr)

-----------------------------------------------------------------------------
(* C23: for a library with n tables, categories.json lists n categories,   *)
(* the i-th (from 0) with id str(i+1) and the i-th table's name; a         *)
(* parts-by-category request with id k (an optional .json suffix stripped) *)
(* returns the rows of the k-th table in file order when 1 <= k <= n and   *)
(* 404 when k is 0, negative, non-numeric or greater than n.               *)

\* The integer a decimal numeral denotes, None for any other string.
C23_Number(s) ==
    LET signed == s # <<>> /\ Head(s) \in {"+", "-"}
        digits == IF signed THEN Tail(s) ELSE s
    IN  IF digits = <<>> \/ \E i \in DOMAIN digits : ~Contains(Digits, digits[i]) THEN None
        ELSE IF signed /\ Head(s) = "-" THEN Some(0 - DigitsValue(digits, 0))
        ELSE Some(DigitsValue(digits, 0))

C23_Id ==
    IF Len(partsLast.id) >= 5
       /\ SubSeq(partsLast.id, Len(partsLast.id) - 4, Len(partsLast.id)) = JsonSuffix
    THEN SubSeq(partsLast.id, 1, Len(partsLast.id) - 5)
    ELSE partsLast.id

C23_CategoriesIndexTables ==
    /\ partsLast.op = "categories" =>
          /\ partsLast.res.status = 200
          /\ Len(partsLast.res.body) = Len(part_tables)
          /\ \A i \in DOMAIN part_tables :
                /\ partsLast.res.body[i].id = <<Digits[i + 1]>>
                /\ partsLast.res.body[i].name = part_tables[i].name
    /\ partsLast.op = "parts" =>
          LET k == C23_Number(C23_Id)
          IN  IF k # None /\ 1 <= k[1] /\ k[1] <= Len(part_tables)
              THEN /\ partsLast.res.status = 200
                   /\ Len(partsLast.res.body) = Len(part_tables[k[1]].components)
                   /\ \A i \in DOMAIN partsLast.res.body :
                         LET id == RowGet(part_tables[k[1]].components[i], IdKey)
                         IN  partsLast.res.body[i].id = IF id = None THEN <<>> ELSE id[1]
              ELSE partsLast.res.status = 404

\* The rows of the second of two tables, asked for as +2, and of the first,
\* asked for with the suffix.
C23_Witness ==
    /\ partsLast.op = "parts"
    /\ partsLast.res.status = 200
    /\ Len(part_tables) = 2
    /\ partsLast.id = <<"+", "2">>
    /\ Len(partsLast.res.body) = 2

-----------------------------------------------------------------------------
(* C24: a part-detail request for id p answers with the first row whose id *)
(* equals p, searching the tables in order, built with the schema of that  *)
(* row's table: the row of the earliest table when several tables have the *)
(* id, and 404 when no table has a row with id p.                          *)

C24_Id ==
    IF Len(partsLast.id) >= 5
       /\ SubSeq(partsLast.id, Len(partsLast.id) - 4, Len(partsLast.id)) = JsonSuffix
    THEN SubSeq(partsLast.id, 1, Len(partsLast.id) - 5)
    ELSE partsLast.id

C24_Hits ==
    {h \in (DOMAIN part_tables) \X (1..(MaxRows + 1)) :
        /\ h[2] \in DOMAIN part_tables[h[1]].components
        /\ \E i \in DOMAIN part_tables[h[1]].components[h[2]] :
              /\ part_tables[h[1]].components[h[2]][i].k = IdKey
              /\ part_tables[h[1]].components[h[2]][i].v = C24_Id}

C24_FirstMatchWins ==
    partsLast.op = "detail" =>
        IF C24_Hits = {} THEN partsLast.res.status = 404
        ELSE \E h \in C24_Hits :
                /\ \A g \in C24_Hits : h[1] < g[1] \/ (h[1] = g[1] /\ h[2] <= g[2])
                /\ partsLast.res = OkJson(BuildPartDetail(part_tables[h[1]].components[h[2]],
                                                          part_tables[h[1]].template))

\* Id 1 is in both tables, and the answer is the row of the first.
C24_Witness ==
    /\ partsLast.op = "detail"
    /\ partsLast.res.status = 200
    /\ \E g, h \in C24_Hits : g[1] = 1 /\ h[1] = 2
    /\ partsLast.res.body.name = <<"M">>

-----------------------------------------------------------------------------
(* C25: building the runtime registry from a persistent registry always    *)
(* succeeds; its tokens are exactly the tokens of the entries whose library*)
(* loads, each mapped to its loaded library, and an entry whose library    *)
(* fails to load is skipped without affecting the other entries.           *)

C25_Loads(entry) ==
    /\ entry.library_path \in DOMAIN disk
    /\ disk[entry.library_path].status = "ok"

C25_LoadedEntriesOnly ==
    lastOp.op = "from_persisted" =>
        /\ lastOp.ok
        /\ DOMAIN libraries = {persisted[i].token : i \in {j \in DOMAIN persisted : C25_Loads(persisted[j])}}
        /\ \A i \in DOMAIN persisted :
              C25_Loads(persisted[i]) =>
                  /\ heap[libraries[persisted[i].token]].name
                        = persisted[i].library_path[Len(persisted[i].library_path)]
                  /\ heap[libraries[persisted[i].token]]
                        = LoadLibrary(disk, persisted[i].library_path).lib

\* An entry that fails between two that load: both are served.
C25_Witness ==
    /\ lastOp.op = "from_persisted"
    /\ Len(persisted) = 3
    /\ C25_Loads(persisted[1])
    /\ ~C25_Loads(persisted[2])
    /\ C25_Loads(persisted[3])
    /\ {persisted[1].token, persisted[3].token} = DOMAIN libraries

-----------------------------------------------------------------------------
(* C26: remove_by_library_path(p) removes exactly the standalone entries   *)
(* whose library_path is p and leaves every project-attached entry, also   *)
(* one with library_path p; remove_by_path(q) removes exactly the entries  *)
(* whose project_path is q; all other entries stay unchanged and in their  *)
(* original order.                                                         *)

\* The sequence without its elements at the positions of gone.
RECURSIVE C26_Without(_, _, _)
C26_Without(projects, gone, i) ==
    IF i > Len(projects) THEN <<>>
    ELSE (IF i \in gone THEN <<>> ELSE <<projects[i]>>) \o C26_Without(projects, gone, i + 1)

C26_RemovesExactly ==
    /\ lastOp.op = "remove_by_library_path" =>
          persisted = C26_Without(lastOp.before,
                                  {i \in DOMAIN lastOp.before :
                                      /\ lastOp.before[i].project_path = None
                                      /\ lastOp.before[i].library_path = lastOp.path}, 1)
    /\ lastOp.op = "remove_by_path" =>
          persisted = C26_Without(lastOp.before,
                                  {i \in DOMAIN lastOp.before :
                                      lastOp.before[i].project_path = Some(lastOp.path)}, 1)

\* A standalone entry between two attached entries of the same library_path
\* was removed, the attached ones are left in their order.
C26_Witness ==
    /\ lastOp.op = "remove_by_library_path"
    /\ Len(lastOp.before) = 3
    /\ Len(persisted) = 2
    /\ lastOp.before[2].project_path = None
    /\ \A i \in DOMAIN persisted :
          persisted[i].library_path = lastOp.path /\ persisted[i].project_path # None

-----------------------------------------------------------------------------
(* C27: has_symbol and has_footprint on a reference Lib:Entry return       *)
(* LibraryNotFound(Lib) when Lib is in no table, LibraryUnreadable(Lib)    *)
(* when Lib is known but its content cannot be resolved or loaded, Found   *)
(* when Lib's loaded content contains Entry, and EntryNotFound(Lib, Entry) *)
(* otherwise; the outcome for a library still pending is the outcome of    *)
(* every later lookup of the same reference.                               *)

\* The content of the library a call finds: None when the library cannot be
\* resolved or loaded, else the set of its entries.
C27_Content(call, lib) ==
    LET c == call.before[LibsField(call.kind)][lib]
    IN  IF c.state = "Unreadable" THEN None
        ELSE IF c.state = "Loaded" THEN Some(c.set)
        ELSE IF Loader(call.kind, call.fs, c.path) = None THEN None
        ELSE Some(Range(Loader(call.kind, call.fs, c.path)[1]))

C27_Outcome(call) ==
    LET parts == SplitOnce(call.arg)
        lib == parts[1][1]
        entry == parts[1][2]
    IN  IF lib \notin DOMAIN call.before[LibsField(call.kind)] THEN LibraryNotFound(lib)
        ELSE IF C27_Content(call, lib) = None THEN LibraryUnreadable(lib)
        ELSE IF entry \in C27_Content(call, lib)[1] THEN Found
        ELSE EntryNotFound(lib, entry)

C27_LookupOutcome ==
    /\ \A i \in DOMAIN lookLog :
          (lookLog[i].op = "has" /\ SplitOnce(lookLog[i].arg) # None) =>
              lookLog[i].res = C27_Outcome(lookLog[i])
    /\ \A i, j \in DOMAIN lookLog :
          (/\ i < j
           /\ lookLog[i].op = "has"
           /\ lookLog[j].op = "has"
           /\ lookLog[i].kind = lookLog[j].kind
           /\ lookLog[i].arg = lookLog[j].arg) => lookLog[i].res = lookLog[j].res

\* A symbol found in a library that was pending, and found again after the
\* file was replaced by one without it.
C27_Witness ==
    /\ Len(lookLog) >= 2
    /\ lookLog[1].op = "has"
    /\ lookLog[1].kind = "symbol"
    /\ lookLog[1].arg = <<"L", ":", "R">>
    /\ lookLog[1].before.symbol_libs[LibNameL].state = "Pending"
    /\ lookLog[1].res = Found
    /\ lookLog[2].op = "has"
    /\ lookLog[2].kind = "symbol"
    /\ lookLog[2].arg = <<"L", ":", "R">>
    /\ lookLog[2].res = Found
    /\ lookLog[2].fs[<<"lib", "a">>] = FileNode(TRUE, <<<<"C">>>>)

-----------------------------------------------------------------------------
(* C28: rename_csv_columns keeps every column at its position and every    *)
(* cell value unchanged and changes only the names of the listed columns   *)
(* that exist, for every rename list (also one whose new name is the name  *)
(* of an existing column); remove_csv_columns removes exactly the listed   *)
(* columns that exist and keeps the others in order; listed columns that   *)
(* do not exist are skipped, and on a missing file both return success     *)
(* without creating a file.  The columns and cells are those of the file   *)
(* as load_csv_with_ids leaves it (ids assigned), or of the file itself    *)
(* when the list is empty and the file is not read.                        *)

C28_Records(file) == ParseCsv(file[1], 1, "record", <<>>, <<>>, <<>>)

C28_Old ==
    C28_Records(IF csvLast.arg = <<>> THEN csvLast.before ELSE csvLast.loaded.file)

\* The new name of a column: that of the last pair naming it, else its own.
C28_NewName(renames, key) ==
    IF \E i \in DOMAIN renames : renames[i][1] = key
    THEN renames[CHOOSE i \in DOMAIN renames :
                    renames[i][1] = key /\ \A j \in DOMAIN renames : renames[j][1] = key => j <= i][2]
    ELSE key

\* The fields of a record at the positions of the header kept.
RECURSIVE C28_Kept(_, _, _, _)
C28_Kept(headers, record, gone, i) ==
    IF i > Len(headers) THEN <<>>
    ELSE (IF headers[i] \in gone THEN <<>> ELSE <<record[i]>>)
         \o C28_Kept(headers, record, gone, i + 1)

C28_ColumnsKept ==
    /\ (csvLast.op \in {"rename", "remove"} /\ csvLast.before = None) =>
          (csvLast.ok /\ csvFile = None)
    /\ (csvLast.op = "rename" /\ csvLast.before # None /\ csvLast.loaded.ok) =>
          /\ csvLast.ok
          /\ csvFile # None
          /\ LET old == C28_Old
                 new == C28_Records(csvFile)
             IN  /\ Len(new) = Len(old)
                 /\ new[1] = [i \in DOMAIN old[1] |-> C28_NewName(csvLast.arg, old[1][i])]
                 /\ \A r \in 2..Len(old) : new[r] = old[r]
    /\ (csvLast.op = "remove" /\ csvLast.before # None /\ csvLast.loaded.ok) =>
          /\ csvLast.ok
          /\ csvFile # None
          /\ LET old == C28_Old
                 new == C28_Records(csvFile)
             IN  /\ Len(new) = Len(old)
                 /\ \A r \in DOMAIN old :
                       new[r] = C28_Kept(old[1], old[r], Range(csvLast.arg), 1)

-----------------------------------------------------------------------------
(* C29: on a periodic scan tick on_active_changed is called if and only if *)
(* the set of directories the scan found differs from the set in ACTIVE,   *)
(* and it is passed the new ACTIVE list, which is the scan's result; a     *)
(* tick whose scan finds the directories of ACTIVE, in whatever order      *)
(* ACTIVE holds them, publishes nothing.                                   *)

C29_TickPublishesIffSetDiffers ==
    lastOp.op = "tick" =>
        /\ lastOp.changed <=> (Range(lastOp.dirs) # Range(lastOp.before))
        /\ lastOp.changed => (lastOp.published = Some(active_dirs) /\ active_dirs = lastOp.dirs)
        /\ ~lastOp.changed => lastOp.published = None

-----------------------------------------------------------------------------
(* C30: after the loop has consumed ProjectOpened(dir) the directory is in *)
(* ACTIVE exactly once, and auto-registration was attempted: a directory   *)
(* whose kicodex.yaml is readable, names a library and whose libraries all *)
(* load has an entry in the registry; after ProjectClosed(dir) the         *)
(* directory is not in ACTIVE; in both cases on_active_changed is called   *)
(* exactly when the event changed ACTIVE, with the new list; and ACTIVE    *)
(* never holds a directory twice.                                          *)

C30_Count(active, dir) == Cardinality({i \in DOMAIN active : active[i] = dir})

C30_Registrable(dir) ==
    /\ manifest[dir].status = "ok"
    /\ manifest[dir].libraries # <<>>

C30_LockEventUpdatesActive ==
    /\ \A i, j \in DOMAIN active_dirs : active_dirs[i] = active_dirs[j] => i = j
    /\ lastOp.op = "opened" =>
          /\ C30_Count(active_dirs, lastOp.dir) = 1
          /\ C30_Registrable(lastOp.dir) => C12_HasEntry(persisted, lastOp.dir)
    /\ lastOp.op = "closed" => C30_Count(active_dirs, lastOp.dir) = 0
    /\ lastOp.op \in {"opened", "closed"} =>
          /\ lastOp.changed <=> (active_dirs # lastOp.before)
          /\ lastOp.published = (IF lastOp.changed THEN Some(active_dirs) ELSE None)

C30_Witness ==
    /\ lastOp.op = "opened"
    /\ lastOp.changed
    /\ Len(active_dirs) = 2
    /\ active_dirs[2] = lastOp.dir
    /\ lastOp.published = Some(active_dirs)
    /\ C12_HasEntry(persisted, lastOp.dir)

-----------------------------------------------------------------------------
(* C31: a failed auto-registration does not stop the engine (it is idle    *)
(* again after every step), every scan tries each directory it finds, and  *)
(* on_discovery is called exactly for the attempts that newly registered   *)
(* at least one library, with a registry that holds the new entries.       *)

C31_Added(attempt) == Range(attempt.after) \ Range(attempt.before)

C31_DiscoveryPublishedIffRegistered ==
    lastOp.op \in {"initial", "tick", "opened"} =>
        /\ enginePc = "idle"
        /\ lastOp.op \in {"initial", "tick"} =>
              [i \in DOMAIN lastOp.attempts |-> lastOp.attempts[i].dir] = lastOp.dirs
        /\ \A i \in DOMAIN lastOp.attempts :
              LET attempt == lastOp.attempts[i]
              IN  /\ attempt.notified <=> (C31_Added(attempt) # {})
                  /\ attempt.notified =>
                        /\ attempt.passed # None
                        /\ C31_Added(attempt) \subseteq Range(attempt.passed[1])

-----------------------------------------------------------------------------
(* C32: load_csv_with_ids rewrites the file if and only if it assigned or  *)
(* replaced at least one id; a load that follows a load at once assigns    *)
(* nothing, rewrites nothing and returns the same rows with the same ids.  *)

\* The load gave some row an id other than the one the file had for it.
C32_Assigned ==
    LET old == C15_RowsOnDisk(csvLast.before)
    IN  \E r \in DOMAIN csvLast.rows : RowGet(csvLast.rows[r], IdKey) # RowGet(old[r], IdKey)

C32_RewritesIffAssigned ==
    (csvLast.op = "load" /\ csvLast.ok) =>
        /\ csvLast.wrote <=> C32_Assigned
        /\ (csvFile # csvLast.before) <=> C32_Assigned
        /\ (csvLast.prev.op = "load" /\ csvLast.prev.ok) =>
              /\ ~csvLast.wrote
              /\ csvFile = csvLast.before
              /\ csvLast.rows = csvLast.prev.rows

\* A file without ids was loaded, which gave its rows fresh ids, and loaded
\* again.
C32_Witness ==
    /\ csvLast.op = "load" /\ csvLast.ok
    /\ csvLast.prev.op = "load" /\ csvLast.prev.ok
    /\ Len(csvLast.rows) = 2
    /\ \A r \in DOMAIN csvLast.rows : RowGet(csvLast.rows[r], IdKey) \in {Some(Uuid(0)), Some(Uuid(1))}
    /\ ~csvLast.wrote

-----------------------------------------------------------------------------
(* C33: when the file has an id column, a row keeps its id if and only if  *)
(* the id is not empty and no earlier row of the file carries it; every    *)
(* other column of every row is returned unchanged, and the rows keep      *)
(* their order.                                                            *)

C33_OldId(old, r) == RowGet(old[r], IdKey)

C33_KeepsFirstOccurrence ==
    (csvLast.op = "load" /\ csvLast.ok /\ csvLast.before # None) =>
        LET old == C15_RowsOnDisk(csvLast.before)
        IN  (\A r \in DOMAIN old : HasKey(old[r], IdKey)) =>
              /\ Len(csvLast.rows) = Len(old)
              /\ \A r \in DOMAIN old :
                    /\ (RowGet(csvLast.rows[r], IdKey) = C33_OldId(old, r))
                          <=> /\ C33_OldId(old, r) # Some(<<>>)
                              /\ \A q \in 1..(r - 1) : C33_OldId(old, q) # C33_OldId(old, r)
                    /\ Keys(csvLast.rows[r]) = Keys(old[r])
                    /\ \A i \in DOMAIN old[r] :
                          old[r][i].k # IdKey => csvLast.rows[r][i] = old[r][i]

\* Two rows with the id 1 and different values: the first kept the id, the
\* second got a fresh one.
C33_Witness ==
    /\ csvLast.op = "load" /\ csvLast.ok /\ csvLast.before # None
    /\ LET old == C15_RowsOnDisk(csvLast.before)
       IN  /\ Len(old) = 2
           /\ C33_OldId(old, 1) = Some(<<"1">>) /\ C33_OldId(old, 2) = Some(<<"1">>)
           /\ RowGet(old[1], ValueKey) = Some(<<"a">>)
           /\ RowGet(old[2], ValueKey) = Some(<<COMMA>>)
           /\ RowGet(csvLast.rows[1], IdKey) = Some(<<"1">>)
           /\ RowGet(csvLast.rows[2], IdKey) = Some(Uuid(0))
           /\ RowGet(csvLast.rows[2], ValueKey) = Some(<<COMMA>>)

-----------------------------------------------------------------------------
(* C34: a directory that a ProjectOpened event added to ACTIVE is still in *)
(* ACTIVE after the next step of the engine, unless that step consumes     *)
(* ProjectClosed for it; so also after a scan tick whose process scan does *)
(* not list the directory.                                                 *)

C34_OpenedStaysUntilClosed ==
    [][(/\ lastOp.op = "opened"
        /\ lastOp.changed
        /\ ~(lastOp'.op = "closed" /\ lastOp'.dir = lastOp.dir))
       => Contains(active_dirs', lastOp.dir)]_vars

-----------------------------------------------------------------------------
(* C35: reload never adds a token to the runtime registry: when           *)
(* remove(token) had taken effect before the reload of the token began,    *)
(* the token is absent after the reload.                                   *)

C35_ReloadNeverAddsToken ==
    (rl.pc = "idle" /\ rl.last # None /\ rl.last[1].removed /\ rl.last[1].absent) =>
        rl.last[1].token \notin DOMAIN libraries

-----------------------------------------------------------------------------
(* C36: after any sequence of try_auto_register calls that starts from     *)
(* empty registries, the tokens of the runtime registry are exactly the    *)
(* tokens of the entries of the persistent registry.                       *)

C36_PersistedTokens == {persisted[i].token : i \in DOMAIN persisted}

C36_RuntimeTokensArePersistedTokens ==
    RegistryTokens(libraries) = C36_PersistedTokens

-----------------------------------------------------------------------------
(* C37: when try_auto_register returns, the descriptor file of every       *)
(* library the manifest lists carries a token that the runtime registry    *)
(* holds; checked where the library registered already could not be loaded *)
(* when the runtime registry was built, so that from_persisted skipped it. *)

C37_DescriptorTokenIsServed ==
    (/\ lastCall # None
     /\ lastCall[1].ok
     /\ FromPersisted(<<RegisteredEntry>>, disk).libraries = <<>>) =>
        \A i \in DOMAIN manifest[lastCall[1].dir].libraries :
            LET key == <<lastCall[1].dir, manifest[lastCall[1].dir].libraries[i].name>>
            IN  key \in DOMAIN files => files[key].token \in RegistryTokens(libraries)

-----------------------------------------------------------------------------
(* C38: after delete_row(path, id) has returned success, loading the file  *)
(* yields no row of that id and every other row unchanged and in order,    *)
(* also when the row was the only one of the file; when no row has the id, *)
(* delete_row returns an error and the file's rows are unchanged.          *)

C38_IsNot(row) == RowGet(row, IdKey) # Some(csvLast.arg)

C38_DeleteRemovesRow ==
    (csvLast.op = "delete" /\ csvLast.loaded.ok) =>
        LET after == LoadCsvWithIds(csvFile, nextToken)
            had == \E r \in DOMAIN csvLast.loaded.rows : ~C38_IsNot(csvLast.loaded.rows[r])
        IN  /\ csvLast.ok <=> had
            /\ after.ok
            /\ after.rows = SelectSeq(csvLast.loaded.rows, C38_IsNot)

-----------------------------------------------------------------------------
(* C39: one external edit under a watched library causes the reload it     *)
(* triggers and at most one further reload, the one caused by the files    *)
(* the first reload rewrote; a further reload rewrites nothing.            *)

C39_AtMostOneFurtherReload ==
    /\ wbLog.reloads <= 2
    /\ ~wbLog.late

-----------------------------------------------------------------------------
(* C40: in KicadLibraries the cached state of a library only moves from    *)
(* Pending to Loaded or from Pending to Unreadable and never changes       *)
(* again, whatever happens to its file; over any sequence of has_symbol,   *)
(* has_footprint, list_symbols and list_footprints calls the loader of a   *)
(* library is called at most once; the set of known names never changes.   *)
(* The calls hold the map's Mutex from the first read of the map to the    *)
(* last write, so concurrent callers are calls in some order.              *)

\* One call's change of one map.
C40_Moves(old, new) ==
    /\ DOMAIN new = DOMAIN old
    /\ \A n \in DOMAIN old :
          IF old[n].state = "Pending"
          THEN \/ new[n] = old[n]
               \/ new[n].state \in {"Loaded", "Unreadable"}
          ELSE new[n] = old[n]

\* No library's loader was called twice.
C40_LoadedOnce(calls) ==
    \A i, j \in 1..Len(calls) : calls[i] = calls[j] => i = j

C40_StateMovesOnceLoaderOnce ==
    [][/\ C40_Moves(kicad.symbol_libs, kicad'.symbol_libs)
       /\ C40_Moves(kicad.footprint_libs, kicad'.footprint_libs)
       /\ C40_LoadedOnce(loaderCalls')
       /\ \A kind \in LookupKinds : \A n \in DOMAIN kicad[LibsField(kind)] :
             (/\ kicad[LibsField(kind)][n].state = "Pending"
              /\ kicad'[LibsField(kind)][n].state # "Pending")
             => loaderCalls' = Append(loaderCalls, <<kind, n>>)]_vars

\* Two calls on a library that could not be read the first time and whose
\* file is readable by the second call: one loader call, still Unreadable.
C40_Witness ==
    /\ Len(lookLog) = 2
    /\ lookLog[1].op = "list"
    /\ lookLog[1].kind = "symbol"
    /\ lookLog[1].before.symbol_libs[LibNameL].state = "Pending"
    /\ lookLog[1].fs[<<"lib", "a">>] = NoNode
    /\ lookLog[2].op = "has"
    /\ lookLog[2].kind = "symbol"
    /\ lookLog[2].arg = <<"L", ":", "C">>
    /\ lookLog[2].fs[<<"lib", "a">>] = FileNode(TRUE, <<<<"C">>>>)
    /\ lookLog[2].res = LibraryUnreadable(LibNameL)
    /\ kicad.symbol_libs[LibNameL].state = "Unreadable"
    /\ loaderCalls = <<<<"symbol", LibNameL>>>>

====
